---- MODULE Spec2Model ----
(***************************************************************************)
(* Model of the Dashboards repository: the financial page                  *)
(* (pages/1_Financial_Dashboard.py) with its upload guard, the pipeline    *)
(* that builds the unified transaction table, the sidebar filters, the     *)
(* Total Expenditure tile, the column resolver and the missing-transaction *)
(* checker; and the subscription page (pages/2_Subscription_Dashboard.py)  *)
(* with its column standardiser, _prepare and the category canonicaliser.  *)
(*                                                                         *)
(* Text is a sequence of one-character strings, so that trimming, case     *)
(* folding, regular-expression replacement and number parsing are computed *)
(* character by character as the Python code computes them.  A numeric     *)
(* cell is a record [nan, v]; v is the decimal value scaled by Scale.      *)
(***************************************************************************)
EXTENDS Integers, Sequences, FiniteSets, TLC

VARIABLES
    pc,            \* position of the financial page script
    bal_uploaded,  \* the balance report has been uploaded (bal_file is not None)
    exp_uploaded,  \* the expenses report has been uploaded (exp_file is not None)
    bal_file,      \* rows held by the uploaded balance report
    exp_file,      \* rows held by the uploaded expenses report
    balance_file,  \* rows of the balance activity report as read by read_csv
    expense_file,  \* rows of the expenses report as read by read_csv
    bf,            \* filtered balance frame with its derived columns
    ef,            \* expense frame with its derived columns
    df,            \* the unified table
    selected,      \* the sidebar selections: months, years, types, users
    filtered_df,   \* the rows of the unified table the filters select
    total_expenditure,  \* the Total Expenditure metric, scaled by Scale
    rpc,           \* position of the missing-transaction check
    tabA,          \* first table handed to _pair_missing
    tabB,          \* second table handed to _pair_missing
    A_only,        \* first table returned by _pair_missing
    B_only,        \* second table returned by _pair_missing
    cpc,           \* position of the canonicaliser call
    val,           \* label handed to _canon_type
    canon,         \* value returned by _canon_type
    spc,           \* position of the subscription page script
    uploaded,      \* the subscriptions file has been uploaded
    sub_raw,       \* rows of the upload as loaded, without a header
    missing,       \* required columns reported as missing
    sub_df,        \* the frame of the subscription page (df)
    ppc,           \* position of the column-resolver call
    columns,       \* column names of the table handed to the resolver
    cand_names,    \* candidate names handed to the resolver
    pick_col,      \* value returned by the resolver
    lpc,           \* position inside _load_csv
    fileobj,       \* the uploaded file: its kind, its bytes and its read position
    tried,         \* the read_csv attempts made so far: encoding and position
    loaded         \* what _load_csv returned or raised

vars == <<pc, bal_uploaded, exp_uploaded, bal_file, exp_file, balance_file, expense_file, bf, ef, df,
          selected, filtered_df, total_expenditure,
          rpc, tabA, tabB, A_only, B_only, cpc, val, canon,
          spc, uploaded, sub_raw, missing, sub_df, ppc, columns, cand_names, pick_col,
          lpc, fileobj, tried, loaded>>

fltVars == <<selected, filtered_df, total_expenditure>>

finVars == <<pc, bal_uploaded, exp_uploaded, bal_file, exp_file,
             balance_file, expense_file, bf, ef, df, fltVars>>

recVars == <<rpc, tabA, tabB, A_only, B_only>>

canVars == <<cpc, val, canon>>

subVars == <<spc, uploaded, sub_raw, missing, sub_df>>

pickVars == <<ppc, columns, cand_names, pick_col>>

loadVars == <<lpc, fileobj, tried, loaded>>

-----------------------------------------------------------------------------
(* Bounds of the explored inputs.                                          *)

\* longest generated raw amount string
MaxAmtLen == 2

\* most rows of a table built from the core row pools
MaxRows == 2

\* most rows of a table handed to _pair_missing
MaxRecRows == 2

\* longest generated category label
MaxLabelLen == 3

-----------------------------------------------------------------------------
(* Characters and text.                                                    *)

\* the non-breaking space U+00A0
NBSP == "NBSP"

Lowers == <<"a","b","c","d","e","f","g","h","i","j","k","l","m","n","o","p","q","r","s","t","u","v","w","x","y","z">>

Uppers == <<"A","B","C","D","E","F","G","H","I","J","K","L","M","N","O","P","Q","R","S","T","U","V","W","X","Y","Z">>

Digits == <<"0","1","2","3","4","5","6","7","8","9">>

LowerSet == {Lowers[i] : i \in 1..26}

UpperSet == {Uppers[i] : i \in 1..26}

DigitSet == {Digits[i] : i \in 1..10}

IsLetter(c) == c \in LowerSet \cup UpperSet

\* \s of a str pattern and the characters str.strip() removes
IsSpace(c) == c \in {" ", "\t", NBSP}

\* \w of a str pattern
IsWord(c) == IsLetter(c) \/ c \in DigitSet \/ c = "_"

\* the upper-case form of each lower-case letter
UpperOf == [c \in LowerSet |-> Uppers[CHOOSE i \in 1..26 : Lowers[i] = c]]

\* the lower-case form of each upper-case letter
LowerOf == [c \in UpperSet |-> Lowers[CHOOSE i \in 1..26 : Uppers[i] = c]]

ToUpper(c) == IF c \in LowerSet THEN UpperOf[c] ELSE c

ToLower(c) == IF c \in UpperSet THEN LowerOf[c] ELSE c

DigitVal(c) == (CHOOSE i \in 1..10 : Digits[i] = c) - 1

MinOf(S) == CHOOSE x \in S : \A y \in S : x <= y

MaxOf(S) == CHOOSE x \in S : \A y \in S : x >= y

\* str.upper()
Upper(s) == [i \in 1..Len(s) |-> ToUpper(s[i])]

\* str.lower()
Lower(s) == [i \in 1..Len(s) |-> ToLower(s[i])]

\* str.strip()
Strip(s) ==
    LET keep == {i \in 1..Len(s) : ~IsSpace(s[i])}
    IN  IF keep = {} THEN << >> ELSE SubSeq(s, MinOf(keep), MaxOf(keep))

\* str.title(): a letter that follows a letter is lowered, any other letter is raised
Title(s) ==
    [i \in 1..Len(s) |->
        IF ~IsLetter(s[i]) THEN s[i]
        ELSE IF i > 1 /\ IsLetter(s[i-1]) THEN ToLower(s[i]) ELSE ToUpper(s[i])]

\* re.sub of every maximal run of characters satisfying Hit by one space
SubRuns(s, Hit(_)) ==
    LET marks == [i \in 1..Len(s) |->
                    IF ~Hit(s[i]) THEN s[i]
                    ELSE IF i > 1 /\ Hit(s[i-1]) THEN "" ELSE " "]
    IN  SelectSeq(marks, LAMBDA c : c # "")

\* "p in s"
Contains(s, p) ==
    \E i \in 1..(Len(s) - Len(p) + 1) : SubSeq(s, i, i + Len(p) - 1) = p

\* s.startswith(p)
StartsWith(s, p) == Len(s) >= Len(p) /\ SubSeq(s, 1, Len(p)) = p

\* s.split(",")[0]
BeforeComma(s) ==
    LET at == {i \in 1..Len(s) : s[i] = ","}
    IN  IF at = {} THEN s ELSE SubSeq(s, 1, MinOf(at) - 1)

\* all texts over alphabet of length at most n
RECURSIVE Texts(_, _)
Texts(alphabet, n) ==
    IF n = 0 THEN {<< >>}
    ELSE LET shorter == Texts(alphabet, n - 1)
         IN  shorter \cup {Append(t, c) : t \in shorter, c \in alphabet}

\* all sequences over pool of length at most n
RECURSIVE Tables(_, _)
Tables(pool, n) ==
    IF n = 0 THEN {<< >>}
    ELSE LET shorter == Tables(pool, n - 1)
         IN  shorter \cup {Append(t, r) : t \in shorter, r \in pool}

-----------------------------------------------------------------------------
(* Numbers.                                                                *)

\* fractional digits kept by the scaled representation
FracDigits == IF MaxAmtLen > 2 THEN MaxAmtLen ELSE 2

RECURSIVE Pow10(_)
Pow10(n) == IF n = 0 THEN 1 ELSE 10 * Pow10(n - 1)

Scale == Pow10(FracDigits)

Num(v) == [nan |-> FALSE, v |-> v]

NaN == [nan |-> TRUE, v |-> 0]

Zero == Num(0)

\* the value of a digit string read as a decimal integer
RECURSIVE DigitsVal(_)
DigitsVal(s) ==
    IF s = << >> THEN 0
    ELSE 10 * DigitsVal(SubSeq(s, 1, Len(s) - 1)) + DigitVal(s[Len(s)])

\* .str.replace(r"[^\d.\-]", "", regex=True)
KeepNumeric(s) == SelectSeq(s, LAMBDA c : c \in DigitSet \/ c = "." \/ c = "-")

\* pd.to_numeric(errors="coerce") of one text: an optional minus sign, digits with
\* at most one decimal point and at least one digit; anything else is NaN
ToNumeric(s) ==
    LET neg    == s # << >> /\ s[1] = "-"
        body   == IF neg THEN Tail(s) ELSE s
        dots   == {i \in 1..Len(body) : body[i] = "."}
        ok     == /\ body # << >>
                  /\ \A i \in 1..Len(body) : body[i] \in DigitSet \/ body[i] = "."
                  /\ Cardinality(dots) <= 1
                  /\ \E i \in 1..Len(body) : body[i] \in DigitSet
        dot    == IF dots = {} THEN Len(body) + 1 ELSE MinOf(dots)
        whole  == SubSeq(body, 1, dot - 1)
        frac   == SubSeq(body, dot + 1, Len(body))
        mag    == DigitsVal(whole) * Scale + DigitsVal(frac) * Pow10(FracDigits - Len(frac))
    IN  IF ~ok THEN NaN ELSE Num(IF neg THEN 0 - mag ELSE mag)

\* Series.fillna(d) of one numeric cell
FillNa(x, d) == IF x.nan THEN d ELSE x

-----------------------------------------------------------------------------
(* Missing cells.  read_csv yields np.nan, np.select(default=pd.NA) and    *)
(* replace({...: pd.NA}) yield pd.NA, DataFrame.get of an absent column    *)
(* yields None.  They differ in their text rendering.                      *)

NAN == <<"np.nan">>

PDNA == <<"pd.NA">>

NONE == <<"None">>

\* Series.isna() of one cell
IsNa(cell) == cell \in {NAN, PDNA, NONE}

\* Series.astype(str) of one cell
AsStr(cell) ==
    IF cell = NAN THEN <<"n","a","n">>
    ELSE IF cell = PDNA THEN <<"<","N","A",">">>
    ELSE IF cell = NONE THEN <<"N","o","n","e">>
    ELSE cell

\* the cleaning with the sign dropped
CleanAmount_Abs(cell) ==
    LET x == FillNa(ToNumeric(KeepNumeric(AsStr(cell))), Zero)
    IN  Num(IF x.v < 0 THEN 0 - x.v ELSE x.v)

\* the cleaning without the final fillna(0.0)
CleanAmount_NoFill(cell) == ToNumeric(KeepNumeric(AsStr(cell)))

\* the amount cleaning shared by both sources:
\* .astype(str).str.replace(r"[^\d.\-]", "").pipe(pd.to_numeric, errors="coerce").fillna(0.0)
CleanAmount(cell) == FillNa(ToNumeric(KeepNumeric(AsStr(cell))), Zero)

-----------------------------------------------------------------------------------------------------------------------------------------------------
(* Dates.  A timestamp is its calendar date, or NaT.                       *)

NaT == [nat |-> TRUE, y |-> 0, m |-> 0, d |-> 0]

DateOf(y, m, d) == [nat |-> FALSE, y |-> y, m |-> m, d |-> d]

\* calendar.month_abbr[1..12]
month_abbr ==
    <<<<"J","a","n">>, <<"F","e","b">>, <<"M","a","r">>, <<"A","p","r">>, <<"M","a","y">>, <<"J","u","n">>,
      <<"J","u","l">>, <<"A","u","g">>, <<"S","e","p">>, <<"O","c","t">>, <<"N","o","v">>, <<"D","e","c">>>>

IsLeap(y) == (y % 4 = 0 /\ y % 100 # 0) \/ y % 400 = 0

DaysIn(y, m) ==
    IF m = 2 THEN (IF IsLeap(y) THEN 29 ELSE 28)
    ELSE IF m \in {4, 6, 9, 11} THEN 30 ELSE 31

IsDigits(s) == s # << >> /\ \A i \in 1..Len(s) : s[i] \in DigitSet

ValidDate(y, m, d) == m \in 1..12 /\ d \in 1..DaysIn(y, m)

\* the text of a number in at least n digits
RECURSIVE ZeroPad(_, _)
ZeroPad(v, n) ==
    IF n <= 1 /\ v < 10 THEN <<Digits[v + 1]>>
    ELSE Append(ZeroPad(v \div 10, n - 1), Digits[(v % 10) + 1])

\* pd.to_datetime(text, errors="coerce", utc=True).dt.tz_convert(None) on the
\* layout of the explored timestamps, "YYYY-MM-DD"; any other explored text is
\* no timestamp
ToDatetimeUtc(t) ==
    IF /\ Len(t) = 10 /\ t[5] = "-" /\ t[8] = "-"
       /\ IsDigits(SubSeq(t, 1, 4)) /\ IsDigits(SubSeq(t, 6, 7)) /\ IsDigits(SubSeq(t, 9, 10))
    THEN LET y == DigitsVal(SubSeq(t, 1, 4))
             m == DigitsVal(SubSeq(t, 6, 7))
             d == DigitsVal(SubSeq(t, 9, 10))
         IN  IF ValidDate(y, m, d) THEN DateOf(y, m, d) ELSE NaT
    ELSE NaT

\* .dt.strftime("%b").str.upper(): NaN for NaT
MonthOf(time) == IF time.nat THEN NAN ELSE Upper(month_abbr[time.m])

\* .dt.year.astype("Int64").astype(str): "<NA>" for NaT
YearOf(time) == IF time.nat THEN <<"<","N","A",">">> ELSE ZeroPad(time.y, 1)

\* pd.to_datetime(Year + "-" + Month + "-01", format="%Y-%b-%d", errors="coerce"):
\* the first day of the month, NaT when Month is NaN or the text is no such date
MonthYearOf(year, month) ==
    IF IsNa(month) \/ ~IsDigits(year) \/ Len(year) # 4 THEN NaT
    ELSE IF \E k \in 1..12 : Upper(month_abbr[k]) = Upper(month)
    THEN DateOf(DigitsVal(year), CHOOSE k \in 1..12 : Upper(month_abbr[k]) = Upper(month), 1)
    ELSE NaT

-----
(* Financial pipeline: the per-source rules.                               *)

KeptTypes == {<<"D","E","P","O","S","I","T">>, <<"C","A","R","D","_","R","E","F","U","N","D">>, <<"P","A","Y","O","U","T">>, <<"A","D","J","U","S","T","M","E","N","T">>}

CARD == <<"C","A","R","D">>

s_Transfers == <<"T","r","a","n","s","f","e","r","s">>

s_AirwallexExpense == <<"A","i","r"," ","w","a","l","l","e","x"," ","E","x","p","e","n","s","e">>

s_Adjustments == <<"A","d","j","u","s","t","m","e","n","t","s">>

s_Incomplete == <<"I","n","c","o","m","p","l","e","t","e">>

\* the characters that end a counterparty name
NameStops == {",", ";", "(", ")"}

\* .str.extract(r"\bto\s+(.+?)(?=[,;()]+|$)", expand=False).str.strip() of one text:
\* the leftmost lower-case word start "to" followed by white space and at least one
\* more character; \s+ takes the longest run that leaves a character for the group,
\* the group is the shortest text that ends before a stop character or at the end
ExtractEmployee(s) ==
    LET n       == Len(s)
        Run(i)  == LET rest == {j \in (i+2)..n : ~IsSpace(s[j])}
                   IN  IF rest = {} THEN n - (i + 1) ELSE MinOf(rest) - (i + 2)
        Gap(i)  == IF i + 2 + Run(i) <= n THEN Run(i) ELSE Run(i) - 1
        starts  == {i \in 1..(n-1) :
                      /\ s[i] = "t" /\ s[i+1] = "o"
                      /\ (i = 1 \/ ~IsWord(s[i-1]))
                      /\ Gap(i) >= 1}
    IN  IF starts = {} THEN NAN
        ELSE LET i     == MinOf(starts)
                 g     == i + 2 + Gap(i)
                 stops == {e \in g..n : e = n \/ s[e+1] \in NameStops}
             IN  Strip(SubSeq(s, g, MinOf(stops)))

\* ft = balance_file[fin_type_col].astype(str).str.strip().str.upper()
FinType(row) == Upper(Strip(AsStr(row.ftt)))

\* np.select([Type == PAYOUT, Type == ADJUSTMENT], [...], default=pd.NA)
BalanceCategory(type) ==
    IF type = <<"P","A","Y","O","U","T">> THEN s_Transfers
    ELSE IF type = <<"A","D","J","U","S","T","M","E","N","T">> THEN s_AirwallexExpense
    ELSE PDNA

\* every kept type treated as a debit
BalanceDebit_AllKept(type, amount) ==
    IF type \in {<<"P","A","Y","O","U","T">>, <<"A","D","J","U","S","T","M","E","N","T">>, <<"D","E","P","O","S","I","T">>, <<"C","A","R","D","_","R","E","F","U","N","D">>} THEN amount ELSE Zero

\* np.where(bf["Type"].isin(["PAYOUT", "ADJUSTMENT"]), bf["Amount"], 0.0)
BalanceDebit(type, amount) ==
    IF type \in {<<"P","A","Y","O","U","T">>, <<"A","D","J","U","S","T","M","E","N","T">>} THEN amount ELSE Zero

\* the credit column filled for every type
BalanceCredit_Always(type, amount) == amount

\* np.where(bf["Type"].isin(["DEPOSIT", "CARD_REFUND"]), bf["Amount"], 0.0)
BalanceCredit(type, amount) ==
    IF type \in {<<"D","E","P","O","S","I","T">>, <<"C","A","R","D","_","R","E","F","U","N","D">>} THEN amount ELSE Zero

\* one row of bf: the raw balance columns and the derived ones
BalanceRow(row) ==
    LET type   == FinType(row)
        amount == CleanAmount(row.amount)
        time   == ToDatetimeUtc(AsStr(row.time))
    IN  [ftt |-> row.ftt, amount |-> row.amount, description |-> row.description,
         txn |-> row.txn, time |-> row.time,
         Time |-> time, Month |-> MonthOf(time), Year |-> YearOf(time),
         Type |-> type,
         Amount |-> amount,
         Employee |-> ExtractEmployee(AsStr(row.description)),
         Expense_category |-> BalanceCategory(type),
         Debit |-> BalanceDebit(type, amount),
         Credit |-> BalanceCredit(type, amount)]

\* bf built from every balance row, whatever its type
BuildBf_NoFilter(file) == [i \in 1..Len(file) |-> BalanceRow(file[i])]

\* bf = balance_file.loc[mask].copy() with its derived columns
BuildBf(file) ==
    LET kept == SelectSeq(file, LAMBDA row : FinType(row) \in KeptTypes)
    IN  [i \in 1..Len(kept) |-> BalanceRow(kept[i])]

\* one row of ef: the raw expense columns and the derived ones
ExpenseRow(row) ==
    [employees |-> row.employees, billing |-> row.billing, category |-> row.category,
     status |-> row.status, txn |-> row.txn, time |-> row.time,
     Time |-> ToDatetimeUtc(AsStr(row.time)),
     Month |-> MonthOf(ToDatetimeUtc(AsStr(row.time))),
     Year |-> YearOf(ToDatetimeUtc(AsStr(row.time))),
     Employee |-> Strip(BeforeComma(AsStr(row.employees))),
     Amount |-> CleanAmount(row.billing),
     Expense_category |-> Strip(AsStr(row.category)),
     Expense_status |-> row.status,
     Type |-> CARD]

BuildEf(file) == [i \in 1..Len(file) |-> ExpenseRow(file[i])]

\* a row of the unified table; User and Category are columns added later
UnifiedRow(txn, type, employee, amount, category, status, debit, credit, time) ==
    [Time |-> time, Month |-> MonthOf(time), Year |-> YearOf(time),
     txn |-> txn, Type |-> type, Employee |-> employee, Amount |-> amount,
     Expense_category |-> category, Expense_status |-> status,
     Debit |-> debit, Credit |-> credit, User |-> NAN, Category |-> NAN,
     MonthYear |-> NaT]

\* balance_filtered: the selected columns of bf, "Expense status" = np.nan
BalanceFiltered(b) ==
    [i \in 1..Len(b) |->
        UnifiedRow(b[i].txn, b[i].Type, b[i].Employee, b[i].Amount,
                   b[i].Expense_category, NAN, b[i].Debit, b[i].Credit, b[i].Time)]

\* expense_filtered: the selected columns of ef, Debit = Amount, Credit = 0.0
ExpenseFiltered(e) ==
    [i \in 1..Len(e) |->
        UnifiedRow(e[i].txn, e[i].Type, e[i].Employee, e[i].Amount,
                   e[i].Expense_category, e[i].Expense_status, e[i].Amount, Zero, e[i].Time)]

\* the concatenation without the balance rows
ConcatFrames_ExpenseOnly(e, b) == ExpenseFiltered(e)

\* pd.concat([expense_filtered, balance_filtered], ignore_index=True)
ConcatFrames(e, b) == ExpenseFiltered(e) \o BalanceFiltered(b)

-----------------------------------------------------------------------------
(* Financial pipeline: the unifier.                                        *)

\* .astype(str).str.replace(r"\s+", " ").str.replace("\xa0", " ").str.strip().str.title()
CleanUser(cell) ==
    LET collapsed == SubRuns(AsStr(cell), IsSpace)
        nbspFree  == [i \in 1..Len(collapsed) |->
                        IF collapsed[i] = NBSP THEN " " ELSE collapsed[i]]
    IN  Title(Strip(nbspFree))

\* lines 213-221 on one row: Type upper-cased, User and Category derived
DeriveRow(r) ==
    [r EXCEPT !.Type = Upper(Strip(AsStr(r.Type))),
              !.User = CleanUser(r.Employee),
              !.Category = Strip(AsStr(r.Expense_category))]

\* the override with the singular label of line 216 and no category
AdjustRow_Singular(r) ==
    IF Upper(AsStr(r.Type)) = <<"A","D","J","U","S","T","M","E","N","T">>
    THEN [r EXCEPT !.User = <<"A","d","j","u","s","t","m","e","n","t">>]
    ELSE r

\* lines 223-225 on one row
AdjustRow(r) ==
    IF Upper(AsStr(r.Type)) = <<"A","D","J","U","S","T","M","E","N","T">>
    THEN [r EXCEPT !.User = s_Adjustments, !.Category = s_AirwallexExpense]
    ELSE r

\* .replace({"": pd.NA, "nan": pd.NA, "None": pd.NA}) of one text
BlankToNa(s) == IF s \in {<< >>, <<"n","a","n">>, <<"N","o","n","e">>} THEN PDNA ELSE s

\* lines 226-232 on one row: a CARD row takes its category from the expense file
CardCategoryRow(r) ==
    IF r.Type = CARD
    THEN [r EXCEPT !.Category = BlankToNa(Strip(AsStr(r.Expense_category)))]
    ELSE r

\* the rule with the status compared case-sensitively
IncompleteRow_CaseSensitive(r) ==
    IF /\ r.Type = CARD
       /\ IsNa(r.Category)
       /\ Strip(AsStr(r.Expense_status)) = <<"I","n","c","o","m","p","l","e","t","e">>
    THEN [r EXCEPT !.Category = s_Incomplete]
    ELSE r

\* lines 235-239 on one row
IncompleteRow(r) ==
    IF /\ r.Type = CARD
       /\ IsNa(r.Category)
       /\ Lower(Strip(AsStr(r.Expense_status))) = <<"i","n","c","o","m","p","l","e","t","e">>
    THEN [r EXCEPT !.Category = s_Incomplete]
    ELSE r

\* lines 243-246 on one row: Month, Year and MonthYear computed again from Time
TimeRow(r) ==
    [r EXCEPT !.Month = MonthOf(r.Time), !.Year = YearOf(r.Time),
              !.MonthYear = MonthYearOf(YearOf(r.Time), MonthOf(r.Time))]

\* lines 249-251 on one row: pd.to_numeric(...).fillna(0.0) of the numeric columns
NumericRow(r) ==
    [r EXCEPT !.Amount = FillNa(r.Amount, Zero),
              !.Debit = FillNa(r.Debit, Zero),
              !.Credit = FillNa(r.Credit, Zero)]

DebitTypes == {<<"C","A","R","D">>, <<"P","A","Y","O","U","T">>, <<"A","D","J","U","S","T","M","E","N","T">>}

CreditTypes == {<<"D","E","P","O","S","I","T">>, <<"C","A","R","D","_","R","E","F","U","N","D">>}

\* the mask of the rows with a zero on either side
MissingMask_EitherZero(r) ==
    \/ ~r.Debit.nan /\ r.Debit.v = 0
    \/ ~r.Credit.nan /\ r.Credit.v = 0

\* missing_mask of one row
MissingMask(r) ==
    /\ ~r.Debit.nan /\ r.Debit.v = 0
    /\ ~r.Credit.nan /\ r.Credit.v = 0

\* the fallback adding Amount to the debit of every row of a debit type
FallbackRow_Accumulating(r) ==
    IF Upper(AsStr(r.Type)) \in DebitTypes
    THEN [r EXCEPT !.Debit = [nan |-> r.Debit.nan \/ r.Amount.nan,
                              v |-> IF r.Debit.nan \/ r.Amount.nan THEN 0
                                    ELSE r.Debit.v + r.Amount.v]]
    ELSE r

\* lines 257-263 on one row
FallbackRow(r) ==
    LET t == Upper(AsStr(r.Type))
    IN  IF ~MissingMask(r) THEN r
        ELSE IF t \in DebitTypes THEN [r EXCEPT !.Debit = r.Amount]
        ELSE IF t \in CreditTypes THEN [r EXCEPT !.Credit = r.Amount]
        ELSE r

MapRows(t, F(_)) == [i \in 1..Len(t) |-> F(t[i])]


-----------------------------------------------------------------------------
(* Financial pipeline: the sidebar filters and the metric tile.            *)

s_ALL == <<"A","L","L">>

s_All == <<"A","l","l">>

s_SalesTeam == <<"S","a","l","e","s"," ","T","e","a","m">>

\* line 332
sales_team_keywords ==
    {<<"M","o","h","i","t">>, <<"A","d","a","r","s","h">>, <<"P","r","a","v","e","e","n">>, <<"S","h","a","i","l","a","b","h">>, <<"A","m","e","e","t">>, <<"J","a","s">>, <<"H","e","m","a","n","t">>}

\* sorted(d[col].dropna().unique()) as a set, for the Month, Year and Type columns
all_months(d) == {d[i].Month : i \in 1..Len(d)} \ {NAN}

all_years(d) == {d[i].Year : i \in 1..Len(d)}

all_types(d) == {d[i].Type : i \in 1..Len(d)}

\* lines 317-328: the rows of the selected months, years and types, with User
\* stripped and title-cased
base_filtered(d, sel) ==
    LET months == IF s_ALL \in sel.months THEN all_months(d) ELSE sel.months
        years  == IF s_ALL \in sel.years THEN all_years(d) ELSE sel.years
        types  == IF s_ALL \in sel.types \/ sel.types = {} THEN all_types(d)
                  ELSE sel.types
        kept   == SelectSeq(d, LAMBDA r : r.Month \in months /\ r.Year \in years
                                             /\ r.Type \in types)
    IN  [i \in 1..Len(kept) |->
            [kept[i] EXCEPT !.User = Title(Strip(AsStr(kept[i].User)))]]

unique_users(base) == {base[i].User : i \in 1..Len(base)}

\* lines 334-342: the rows of the selected users
FilterUsers(base, users) ==
    IF s_All \in users \/ users = {} THEN base
    ELSE IF s_SalesTeam \in users
    THEN LET sales_matches ==
                 {u \in unique_users(base) :
                     \E k \in sales_team_keywords : Contains(Lower(u), Lower(k))}
             explicit    == users \ {s_All, s_SalesTeam}
             final_users == sales_matches \cup explicit
         IN  SelectSeq(base, LAMBDA r : r.User \in final_users)
    ELSE SelectSeq(base, LAMBDA r : r.User \in users)

\* lines 352-357 on one row: the credit of a DEPOSIT, the debit of any other row
Final_Amount(r) == IF Upper(AsStr(r.Type)) = <<"D","E","P","O","S","I","T">> THEN r.Credit ELSE r.Debit

\* the sum of a numeric column, given by its values, skipping not-a-number
SumOf(xs) ==
    LET F[i \in 0..Len(xs)] ==
            IF i = 0 THEN 0
            ELSE F[i-1] + (IF xs[i].nan THEN 0 ELSE xs[i].v)
    IN  F[Len(xs)]

\* the metric computed from the pie-safe amount instead of the debit column
TotalExpenditure_FinalAmount(rows) ==
    SumOf([i \in 1..Len(rows) |-> Final_Amount(rows[i])])

\* line 360: filtered_df["Debit Net Amount"].sum()
TotalExpenditure(rows) == SumOf([i \in 1..Len(rows) |-> rows[i].Debit])
-----------------------------------------------------------------------------
(* Financial pipeline: the uploads explored.  read_csv never yields the    *)
(* texts "", "nan" or "None" in a cell (they are read as np.nan), so the   *)
(* pools hold np.nan and texts that differ from those.                     *)

BalRow(t, a, d, x, w) ==
    [ftt |-> t, amount |-> a, description |-> d, txn |-> x, time |-> w]

ExpRow(e, a, c, s, x, w) ==
    [employees |-> e, billing |-> a, category |-> c, status |-> s, txn |-> x,
     time |-> w]

TypeCells ==
    {<<"p","a","y","o","u","t">>, <<" ","P","A","Y","O","U","T"," ">>, <<"D","E","P","O","S","I","T">>, <<"C","a","r","d","_","R","e","f","u","n","d">>, <<"A","D","J","U","S","T","M","E","N","T">>,
     <<"F","E","E">>, <<"C","A","R","D">>, NAN}

AmtAlphabet == {"1", "0", ".", "-", "$"}

AmountCells ==
    (Texts(AmtAlphabet, MaxAmtLen) \ {<< >>})
        \cup {<<"$","1",",","2","0","0",".","0","0">>, <<"-","5","0",".","0","0">>, <<"1",",","2","3","4",".","5","6">>, <<"A","U","D"," ","7","5",".","5">>, <<"(","2","0",")">>, NAN}

DescCells ==
    {<<"p","a","y","o","u","t"," ","t","o"," ","M","r"," ","J","a","m","e","s"," ","B","r","o","o","k">>, <<"a","d","j","u","s","t"," ","t","o"," ","F","i","n","a","n","c","e"," ","T","e","a","m",","," ","r","e","f"," ","9">>,
     <<"p","a","y"," ","t","o"," "," ","a","n","n"," "," ","l","e","e"," ","(","x",")">>, <<"P","a","i","d"," ","T","o"," ","B","o","b">>, <<"a","u","t","o"," ","t","o","p"," ","u","p">>, <<"s","e","n","t"," ","t","o"," "," ">>,
     <<"r","e","f","u","n","d">>, NAN}

EmployeeCells ==
    {<<"C","h","r","i","s","t","i","n","e"," "," ","T","h","o","m","a","s",","," ","B","o","b">>, <<"a","n","n",NBSP,"l","e","e">>, <<"m","o","h","i","t"," ","k">>, NAN}

CategoryCells ==
    {NAN, <<"T","r","a","v","e","l">>, <<" ","M","e","a","l","s"," ">>, <<" "," ">>, <<" ","n","a","n">>, <<"N","o","n","e"," ">>, <<"i","n","c","o","m","p","l","e","t","e">>}

StatusCells == {NAN, <<"I","n","c","o","m","p","l","e","t","e">>, <<" ","I","N","C","O","M","P","L","E","T","E"," ">>, <<"i","n","c","o","m","p","l","e","t","e">>, <<"C","o","m","p","l","e","t","e">>}

\* timestamps: two months, a day that does not exist, a text that is no date
TimeCells == {<<"2","0","2","5","-","0","1","-","1","5">>, <<"2","0","2","5","-","0","2","-","0","3">>, <<"2","0","2","5","-","0","2","-","3","0">>, <<"s","o","o","n">>, NAN}

CoreBalance ==
    {BalRow(<<"p","a","y","o","u","t">>, <<"$","1",",","2","0","0",".","0","0">>, <<"p","a","y","o","u","t"," ","t","o"," ","M","r"," ","J","a","m","e","s"," ","B","r","o","o","k">>, <<"b","1">>, <<"2","0","2","5","-","0","1","-","1","5">>),
     BalRow(<<"A","D","J","U","S","T","M","E","N","T">>, <<"-","5","0",".","0","0">>, <<"a","d","j","u","s","t"," ","t","o"," ","F","i","n","a","n","c","e"," ","T","e","a","m",","," ","r","e","f"," ","9">>, <<"b","2">>, <<"2","0","2","5","-","0","2","-","0","3">>),
     BalRow(<<"D","E","P","O","S","I","T">>, <<"1",",","2","3","4",".","5","6">>, <<"r","e","f","u","n","d">>, NAN, <<"2","0","2","5","-","0","1","-","1","5">>),
     BalRow(<<"F","E","E">>, <<"1","0">>, NAN, <<"b","3">>, <<"s","o","o","n">>)}

CoreExpense ==
    {ExpRow(<<"C","h","r","i","s","t","i","n","e"," "," ","T","h","o","m","a","s",","," ","B","o","b">>, <<"7","5",".","5","0">>, NAN, <<"I","n","c","o","m","p","l","e","t","e">>, <<"e","1">>, <<"2","0","2","5","-","0","1","-","1","5">>),
     ExpRow(<<"B","o","b">>, <<"-","2","0">>, <<"T","r","a","v","e","l">>, <<"C","o","m","p","l","e","t","e">>, <<"e","2">>, <<"2","0","2","5","-","0","2","-","0","3">>),
     ExpRow(NAN, NAN, <<" ","n","a","n">>, <<"i","n","c","o","m","p","l","e","t","e">>, NAN, NAN)}

BalanceRows ==
    {BalRow(t, a, <<"p","a","y","o","u","t"," ","t","o"," ","M","r"," ","J","a","m","e","s"," ","B","r","o","o","k">>, <<"b","1">>, <<"2","0","2","5","-","0","1","-","1","5">>) :
        t \in TypeCells, a \in AmountCells}
        \cup {BalRow(t, <<"$","1",",","2","0","0",".","0","0">>, d, <<"b","1">>, <<"2","0","2","5","-","0","1","-","1","5">>) : t \in TypeCells, d \in DescCells}
        \cup {BalRow(t, <<"$","1",",","2","0","0",".","0","0">>, <<"p","a","y","o","u","t"," ","t","o"," ","J","a","s"," ","G","i","l","l">>, <<"b","1">>, w) :
                t \in TypeCells, w \in TimeCells}

ExpenseRows ==
    {ExpRow(<<"B","o","b">>, a, <<"T","r","a","v","e","l">>, <<"C","o","m","p","l","e","t","e">>, <<"e","1">>, <<"2","0","2","5","-","0","1","-","1","5">>) : a \in AmountCells}
        \cup {ExpRow(e, <<"7","5",".","5","0">>, c, s, <<"e","1">>, <<"2","0","2","5","-","0","2","-","0","3">>) :
                e \in EmployeeCells, c \in CategoryCells, s \in StatusCells}

\* pairs <<balance rows, expense rows>> of the uploaded files
Uploads ==
    (Tables(CoreBalance, MaxRows) \X Tables(CoreExpense, MaxRows))
        \cup ({<<r>> : r \in BalanceRows} \X Tables(CoreExpense, 1))
        \cup (Tables(CoreBalance, 1) \X {<<r>> : r \in ExpenseRows})

-----------------------------------------------------------------------------
(* Financial pipeline: the page script, top to bottom.                     *)

recIdle ==
    /\ rpc = "idle" /\ tabA = << >> /\ tabB = << >>
    /\ A_only = << >> /\ B_only = << >>

canIdle == cpc = "idle" /\ val = << >> /\ canon = << >>

\* the file uploader returns None or the uploaded file
NoUpload == [none |-> TRUE, rows |-> << >>]

UploadOf(t) == [none |-> FALSE, rows |-> t]

subIdle ==
    /\ spc = "idle" /\ uploaded = NoUpload /\ sub_raw = << >>
    /\ missing = << >> /\ sub_df = << >>

NoSelection == [months |-> {}, years |-> {}, types |-> {}, users |-> {}]

fltIdle == selected = NoSelection /\ filtered_df = << >> /\ total_expenditure = 0

NoFile == [csv |-> FALSE, bytes |-> << >>, pos |-> 0]

NothingLoaded == [kind |-> "none", enc |-> "", text |-> << >>]

loadIdle ==
    lpc = "idle" /\ fileobj = NoFile /\ tried = << >> /\ loaded = NothingLoaded

pickIdle == ppc = "idle" /\ columns = << >> /\ cand_names = << >> /\ pick_col = << >>

InitFin ==
    /\ pc = "start"
    /\ \/ /\ bal_uploaded = TRUE /\ exp_uploaded = TRUE
          /\ \E u \in Uploads : bal_file = u[1] /\ exp_file = u[2]
       \/ /\ bal_uploaded \in BOOLEAN /\ exp_uploaded \in BOOLEAN
          /\ ~(bal_uploaded /\ exp_uploaded)
          /\ bal_file \in (IF bal_uploaded THEN Tables(CoreBalance, 1) ELSE {<< >>})
          /\ exp_file \in (IF exp_uploaded THEN Tables(CoreExpense, 1) ELSE {<< >>})
    /\ balance_file = << >> /\ expense_file = << >>
    /\ bf = << >> /\ ef = << >> /\ df = << >>
    /\ fltIdle
    /\ recIdle /\ canIdle /\ subIdle /\ pickIdle /\ loadIdle

\* lines 88-94: st.stop() unless both files are uploaded
Stop ==
    /\ pc = "start"
    /\ ~(bal_uploaded /\ exp_uploaded)
    /\ pc' = "stopped"
    /\ UNCHANGED <<recVars, canVars, subVars, pickVars, loadVars, fltVars, bal_uploaded, exp_uploaded,
                   bal_file, exp_file,
                   balance_file, expense_file, bf, ef, df>>

\* the read guarded by either upload instead of both
ReadFiles_EitherFile ==
    /\ pc = "start"
    /\ bal_uploaded \/ exp_uploaded
    /\ balance_file' = bal_file
    /\ expense_file' = exp_file
    /\ pc' = "read"
    /\ UNCHANGED <<recVars, canVars, subVars, pickVars, loadVars, fltVars, bal_uploaded, exp_uploaded,
                   bal_file, exp_file, bf, ef, df>>

\* lines 96-97: pd.read_csv of both uploads
ReadFiles ==
    /\ pc = "start"
    /\ bal_uploaded /\ exp_uploaded
    /\ balance_file' = bal_file
    /\ expense_file' = exp_file
    /\ pc' = "read"
    /\ UNCHANGED <<recVars, canVars, subVars, pickVars, loadVars, fltVars, bal_uploaded, exp_uploaded,
                   bal_file, exp_file, bf, ef, df>>

\* lines 114-163: the balance rules
BuildBalance ==
    /\ pc = "read"
    /\ bf' = BuildBf(balance_file)
    /\ pc' = "balance"
    /\ UNCHANGED <<recVars, canVars, subVars, pickVars, loadVars, fltVars, bal_uploaded, exp_uploaded,
                   bal_file, exp_file,
                   balance_file, expense_file, ef, df>>

\* lines 167-206: the expense rules
BuildExpense ==
    /\ pc = "balance"
    /\ ef' = BuildEf(expense_file)
    /\ pc' = "expense"
    /\ UNCHANGED <<recVars, canVars, subVars, pickVars, loadVars, fltVars, bal_uploaded, exp_uploaded,
                   bal_file, exp_file,
                   balance_file, expense_file, bf, df>>

\* lines 207-210: final_dataframe = pd.concat(...); df = final_dataframe.copy()
Concat ==
    /\ pc = "expense"
    /\ df' = ConcatFrames(ef, bf)
    /\ pc' = "concat"
    /\ UNCHANGED <<recVars, canVars, subVars, pickVars, loadVars, fltVars, bal_uploaded, exp_uploaded,
                   bal_file, exp_file,
                   balance_file, expense_file, bf, ef>>

\* what a unifier step leaves alone
unifierFrame ==
    <<recVars, canVars, subVars, pickVars, loadVars, fltVars, bal_uploaded, exp_uploaded, bal_file, exp_file,
      balance_file, expense_file, bf, ef>>

\* lines 212-221: Type, User and Category
DeriveUserCategory ==
    /\ pc = "concat"
    /\ df' = MapRows(df, DeriveRow)
    /\ pc' = "derived"
    /\ UNCHANGED unifierFrame

\* lines 222-225: the ADJUSTMENT override
AdjustmentOverride ==
    /\ pc = "derived"
    /\ df' = MapRows(df, AdjustRow)
    /\ pc' = "adjusted"
    /\ UNCHANGED unifierFrame

\* lines 226-232: the category of CARD rows
CardCategory ==
    /\ pc = "adjusted"
    /\ df' = MapRows(df, CardCategoryRow)
    /\ pc' = "card"
    /\ UNCHANGED unifierFrame

\* lines 234-239: the Incomplete rule
IncompleteRule ==
    /\ pc = "card"
    /\ df' = MapRows(df, IncompleteRow)
    /\ pc' = "incomplete"
    /\ UNCHANGED unifierFrame

\* lines 242-246: the time fields
TimeFields ==
    /\ pc = "incomplete"
    /\ df' = MapRows(df, TimeRow)
    /\ pc' = "time"
    /\ UNCHANGED unifierFrame

\* lines 248-251: numeric coercion
EnsureNumerics ==
    /\ pc = "time"
    /\ df' = MapRows(df, NumericRow)
    /\ pc' = "numeric"
    /\ UNCHANGED unifierFrame

\* lines 256-263: the debit/credit fallback
DebitCreditFallback ==
    /\ pc = "numeric"
    /\ df' = MapRows(df, FallbackRow)
    /\ pc' = "unified"
    /\ UNCHANGED unifierFrame

\* the selections explored for each sidebar widget
MonthMenus == {{s_ALL}, {<<"J","A","N">>}}

YearMenus == {{s_ALL}, {<<"2","0","2","5">>}}

TypeMenus == {{s_ALL}, {}, {<<"D","E","P","O","S","I","T">>, <<"P","A","Y","O","U","T">>}}

UserMenus == {{s_All}, {s_SalesTeam}, {<<"B","o","b">>}, {s_SalesTeam, <<"B","o","b">>}}

\* lines 305-360: the sidebar selections, each among the options its widget
\* offers, the filtered rows and the Total Expenditure tile
Filter ==
    /\ pc = "unified"
    /\ \E sel \in [months : MonthMenus, years : YearMenus,
                    types : TypeMenus, users : UserMenus] :
          LET base == base_filtered(df, sel)
              rows == FilterUsers(base, sel.users)
          IN  /\ sel.months \subseteq {s_ALL} \cup all_months(df)
              /\ sel.years \subseteq {s_ALL} \cup all_years(df)
              /\ sel.types \subseteq {s_ALL} \cup all_types(df)
              /\ sel.users \subseteq {s_All, s_SalesTeam} \cup unique_users(base)
              /\ selected' = sel
              /\ filtered_df' = rows
              /\ total_expenditure' = TotalExpenditure(rows)
    /\ pc' = "filtered"
    /\ UNCHANGED <<recVars, canVars, subVars, pickVars, loadVars, bal_uploaded, exp_uploaded,
                   bal_file, exp_file, balance_file, expense_file, bf, ef, df>>

NextFin ==
    \/ Stop
    \/ ReadFiles
    \/ BuildBalance
    \/ BuildExpense
    \/ Concat
    \/ DeriveUserCategory
    \/ AdjustmentOverride
    \/ CardCategory
    \/ IncompleteRule
    \/ TimeFields
    \/ EnsureNumerics
    \/ DebitCreditFallback
    \/ Filter

Spec == InitFin /\ [][NextFin]_vars

-----------------------------------------------------------------------------
(* Properties of the unified table.  Row i of df comes from row i of ef    *)
(* (and of expense_file) for i <= Len(ef), and from row i - Len(ef) of bf  *)
(* otherwise: concat puts the expense rows first and keeps the order.      *)

Unified == pc = "unified"

\* the positions of the script after the ADJUSTMENT override
AfterOverride ==
    {"adjusted", "card", "incomplete", "time", "numeric", "unified", "filtered"}

ExpenseIdx == 1..Len(ef)

BalanceIdx == 1..Len(bf)

\* the unified row built from row j of bf
OfBalance(j) == df[Len(ef) + j]

LeadingMinus(raw) ==
    LET kept == KeepNumeric(AsStr(raw))
    IN  kept # << >> /\ kept[1] = "-"

SignKept(raw, x) ==
    /\ ~x.nan
    /\ LeadingMinus(raw) => x.v <= 0
    /\ ~LeadingMinus(raw) => x.v >= 0
    /\ raw = <<"-","5","0",".","0","0">> => x.v = 0 - 50 * Scale

C4_AdjustmentOverride ==
    pc \in AfterOverride =>
        \A i \in 1..Len(df) :
            df[i].Type = <<"A","D","J","U","S","T","M","E","N","T">> =>
                df[i].User = <<"A","d","j","u","s","t","m","e","n","t","s">> /\ df[i].Category = <<"A","i","r"," ","w","a","l","l","e","x"," ","E","x","p","e","n","s","e">>

C4_Witness ==
    /\ Unified
    /\ \E i \in 1..Len(df) :
          /\ df[i].Type = <<"A","D","J","U","S","T","M","E","N","T">>
          /\ df[i].Employee = <<"F","i","n","a","n","c","e"," ","T","e","a","m">>
          /\ df[i].User = <<"A","d","j","u","s","t","m","e","n","t","s">>

\* the source category of an expense row is empty or absent
NoCategory(row) == IsNa(row.category) \/ Strip(row.category) = << >>

\* the expense status equals "Incomplete" ignoring case
StatusIncomplete(row) == ~IsNa(row.status) /\ Lower(row.status) = <<"i","n","c","o","m","p","l","e","t","e">>

ReadAsBlank(row) == ~IsNa(row.category) /\ Strip(row.category) \in {<<"n","a","n">>, <<"N","o","n","e">>}

C6_AsStated ==
    Unified =>
        \A j \in BalanceIdx :
            (/\ bf[j].ftt = <<"p","a","y","o","u","t">>
             /\ bf[j].amount = <<"$","1",",","2","0","0",".","0","0">>
             /\ bf[j].description = <<"p","a","y","o","u","t"," ","t","o"," ","M","r"," ","J","a","m","e","s"," ","B","r","o","o","k">>) =>
                /\ OfBalance(j).Type = <<"P","A","Y","O","U","T">>
                /\ OfBalance(j).Debit = Num(1200 * Scale)
                /\ OfBalance(j).Credit = Zero
                /\ OfBalance(j).Category = <<"T","r","a","n","s","f","e","r","s">>
                /\ OfBalance(j).User = <<"J","a","m","e","s"," ","B","r","o","o","k">>


\* the positions of the script at which bf exists
BalanceBuilt ==
    pc \in {"balance", "expense", "concat", "derived", "adjusted", "card",
            "incomplete", "time", "numeric", "unified", "filtered"}

BothUploaded == bal_uploaded /\ exp_uploaded

RawBalance(r) == BalRow(r.ftt, r.amount, r.description, r.txn, r.time)

\* C17: bf holds exactly the balance rows whose type, trimmed and upper-cased, is
\* DEPOSIT, CARD_REFUND, PAYOUT or ADJUSTMENT, in file order; every row of the
\* unified table has Type CARD, DEPOSIT, CARD_REFUND, PAYOUT or ADJUSTMENT.
C17_KeptTypes ==
    /\ BalanceBuilt =>
          [j \in BalanceIdx |-> RawBalance(bf[j])]
              = SelectSeq(balance_file,
                          LAMBDA r : Upper(Strip(AsStr(r.ftt)))
                                        \in {<<"D","E","P","O","S","I","T">>, <<"C","A","R","D","_","R","E","F","U","N","D">>, <<"P","A","Y","O","U","T">>,
                                             <<"A","D","J","U","S","T","M","E","N","T">>})
    /\ Unified =>
          \A i \in 1..Len(df) :
              df[i].Type \in {<<"C","A","R","D">>, <<"D","E","P","O","S","I","T">>, <<"C","A","R","D","_","R","E","F","U","N","D">>, <<"P","A","Y","O","U","T">>,
                              <<"A","D","J","U","S","T","M","E","N","T">>}

\* a balance file with a FEE row and a lower-case payout row: one row is kept
C17_Witness ==
    /\ Unified
    /\ Len(balance_file) = 2
    /\ \E k \in 1..2 : balance_file[k].ftt = <<"F","E","E">>
    /\ \E k \in 1..2 : balance_file[k].ftt = <<"p","a","y","o","u","t">>
    /\ Len(bf) = 1
    /\ bf[1].Type = <<"P","A","Y","O","U","T">>
    /\ Len(ef) >= 1

\* a text with every whole word "to" written in any case put in lower case
LowerTo(s) ==
    LET n     == Len(s)
        Edge(i, k) == (i = 1 \/ ~IsWord(s[i-1])) /\ (k = n \/ ~IsWord(s[k+1]))
        IsTo(i)    == /\ i >= 1 /\ i < n
                      /\ s[i] \in {"t", "T"} /\ s[i+1] \in {"o", "O"}
                      /\ Edge(i, i + 1)
    IN  [i \in 1..n |-> IF IsTo(i) THEN "t" ELSE IF IsTo(i - 1) THEN "o" ELSE s[i]]

\* C18 as stated: the counterparty of a balance row is the trimmed text after the
\* first whole word "to" of the description, in any case, up to the next "," ";"
\* "(" ")" or the end.
C18_AsStated ==
    BalanceBuilt =>
        \A j \in BalanceIdx :
            bf[j].Employee = ExtractEmployee(LowerTo(AsStr(bf[j].description)))

\* the renderings of a missing value as text, as astype(str) and title() give them
MissingTexts == {<<"n","a","n">>, <<"N","a","n">>, <<"N","a","N">>, <<"N","o","n","e">>, <<"<","N","A",">">>, <<"<","N","a",">">>}

\* C19 as stated: a balance row whose description has no "to <name>" has no
\* counterparty, and its User in the unified table is not the text of a missing
\* value.
C19_AsStated ==
    /\ BalanceBuilt =>
          \A j \in BalanceIdx :
              ExtractEmployee(AsStr(bf[j].description)) = NAN => IsNa(bf[j].Employee)
    /\ Unified =>
          \A j \in BalanceIdx :
              IsNa(bf[j].Employee) => OfBalance(j).User \notin MissingTexts

\* C20 as stated: the category of a balance row is "Transfers" for PAYOUT, the
\* adjustment label for ADJUSTMENT and missing for DEPOSIT and CARD_REFUND; in the
\* unified table the Category of a DEPOSIT or CARD_REFUND row is missing.
C20_AsStated ==
    /\ BalanceBuilt =>
          \A j \in BalanceIdx :
              /\ bf[j].Type = <<"P","A","Y","O","U","T">> => bf[j].Expense_category = <<"T","r","a","n","s","f","e","r","s">>
              /\ bf[j].Type = <<"A","D","J","U","S","T","M","E","N","T">> =>
                    bf[j].Expense_category = <<"A","i","r"," ","w","a","l","l","e","x"," ","E","x","p","e","n","s","e">>
              /\ bf[j].Type \in {<<"D","E","P","O","S","I","T">>, <<"C","A","R","D","_","R","E","F","U","N","D">>} =>
                    IsNa(bf[j].Expense_category)
    /\ Unified =>
          \A j \in BalanceIdx :
              bf[j].Type \in {<<"D","E","P","O","S","I","T">>, <<"C","A","R","D","_","R","E","F","U","N","D">>} =>
                  IsNa(OfBalance(j).Category)

Filtered == pc = "filtered"

\* the rows of the unified table that the selections of the sidebar select: month,
\* year and type among the selected ones (ALL, or no type, selects every one), and
\* user among the selected ones (All, or no user, selects every one; Sales Team
\* selects the users whose name holds a sales-team keyword)
Selects(r) ==
    LET user == Title(Strip(AsStr(r.User)))
    IN  /\ ~IsNa(r.Month)
        /\ s_ALL \in selected.months \/ r.Month \in selected.months
        /\ s_ALL \in selected.years \/ r.Year \in selected.years
        /\ s_ALL \in selected.types \/ selected.types = {} \/ r.Type \in selected.types
        /\ \/ s_All \in selected.users
           \/ selected.users = {}
           \/ user \in selected.users
           \/ /\ s_SalesTeam \in selected.users
              /\ \E k \in sales_team_keywords : Contains(Lower(user), Lower(k))

\* the debit of the selected rows of the given types, summed
DebitOver(types) ==
    LET rows == SelectSeq(df, LAMBDA r : Selects(r) /\ r.Type \in types)
    IN  SumOf([i \in 1..Len(rows) |-> rows[i].Debit])

DefaultSelection ==
    [months |-> {s_ALL}, years |-> {s_ALL}, types |-> {s_ALL}, users |-> {s_All}]

\* C30: with Months, Years and Types at ALL and Users at All, the filtered rows
\* are the rows of the unified table, those without a timestamp included, and
\* Total Expenditure is the sum of Debit Net Amount over the unified table.
C30_AsStated ==
    (Filtered /\ selected = DefaultSelection) =>
        /\ filtered_df = df
        /\ total_expenditure = TotalExpenditure(df)
-----------------------------------------------------------------------------
(* Missing-transaction checker.  A table is None or a frame: its column    *)
(* names in order and its rows, each row the cells in column order.        *)

NoneTable == [none |-> TRUE, cols |-> << >>, rows |-> << >>]

Frame(cols, rows) == [none |-> FALSE, cols |-> cols, rows |-> rows]

\* pd.DataFrame()
EmptyFrame == Frame(<< >>, << >>)

\* DataFrame.empty: no column or no row
IsEmpty(t) == Len(t.cols) = 0 \/ Len(t.rows) = 0

\* the elements of s at the positions satisfying Keep, in order
SelectByIndex(s, Keep(_)) ==
    LET F[i \in 0..Len(s)] ==
            IF i = 0 THEN << >>
            ELSE IF Keep(i) THEN Append(F[i-1], s[i]) ELSE F[i-1]
    IN  F[Len(s)]

\* {c.lower().strip(): c for c in df.columns}: a later column replaces an earlier
\* one with the same key
_map_cols(cols) ==
    LET Key(i) == Strip(Lower(cols[i]))
    IN  [k \in {Key(i) : i \in 1..Len(cols)} |->
            cols[MaxOf({i \in 1..Len(cols) : Key(i) = k})]]

\* the column of the first candidate whose lower-cased name is a key of cmap, or None
_pick_name(cmap, candidates) ==
    LET hits == {j \in 1..Len(candidates) : Lower(candidates[j]) \in DOMAIN cmap}
    IN  IF hits = {} THEN NONE ELSE cmap[Lower(candidates[MinOf(hits)])]

\* s.astype(str).str.strip().str.lower() of one cell
_norm_id(cell) == Lower(Strip(AsStr(cell)))

TxnCandidates == <<<<"T","r","a","n","s","a","c","t","i","o","n"," ","I","d">>, <<"T","r","a","n","s","a","c","t","i","o","n","I","D">>, <<"T","r","a","n","s","a","c","t","i","o","n","_","I","d">>>>

\* the candidate lists of _nice_subset, in order
NiceCandidates ==
    << TxnCandidates,
       <<<<"T","i","m","e">>, <<"C","r","e","a","t","e","d"," ","A","t">>, <<"T","r","a","n","s","a","c","t","i","o","n"," ","t","i","m","e","s","t","a","m","p"," ","U","T","C">>>>,
       <<<<"T","y","p","e">>>>,
       <<<<"F","i","n","a","n","c","i","a","l"," ","T","r","a","n","s","a","c","t","i","o","n"," ","T","y","p","e">>, <<"F","i","n","a","n","c","i","a","l"," ","t","r","a","n","s","a","c","t","i","o","n"," ","t","y","p","e">>, <<"F","i","n","a","n","c","i","a","l","_","T","y","p","e">>>>,
       <<<<"D","e","s","c","r","i","p","t","i","o","n">>, <<"R","e","f","e","r","e","n","c","e">>>>,
       <<<<"A","m","o","u","n","t">>, <<"T","r","a","n","s","a","c","t","i","o","n"," ","a","m","o","u","n","t">>, <<"B","i","l","l","i","n","g"," ","a","m","o","u","n","t">>>>,
       <<<<"D","e","b","i","t"," ","N","e","t"," ","A","m","o","u","n","t">>, <<"D","e","b","i","t"," ","A","m","o","u","n","t">>>>,
       <<<<"C","r","e","d","i","t"," ","N","e","t"," ","A","m","o","u","n","t">>, <<"C","r","e","d","i","t"," ","A","m","o","u","n","t">>>>,
       <<<<"W","a","l","l","e","t"," ","C","u","r","r","e","n","c","y">>, <<"T","r","a","n","s","a","c","t","i","o","n"," ","C","u","r","r","e","n","c","y">>, <<"B","i","l","l","i","n","g"," ","c","u","r","r","e","n","c","y">>, <<"C","u","r","r","e","n","c","y">>>>,
       <<<<"E","m","p","l","o","y","e","e","(","s",")">>, <<"U","s","e","r">>, <<"E","m","p","l","o","y","e","e","1">>>>,
       <<<<"E","x","p","e","n","s","e"," ","c","a","t","e","g","o","r","y">>, <<"C","a","t","e","g","o","r","y">>>> >>

\* the position of a column name in a frame
ColIdx(cols, name) == CHOOSE i \in 1..Len(cols) : cols[i] = name

\* _nice_subset: the friendly columns that resolve, without repeats, in order; all
\* columns when none resolves
_nice_subset(t) ==
    LET m      == _map_cols(t.cols)
        picked == [g \in 1..Len(NiceCandidates) |-> _pick_name(m, NiceCandidates[g])]
        found  == SelectSeq(picked, LAMBDA n : n # NONE)
        names  == SelectByIndex(found, LAMBDA i : \A j \in 1..(i-1) : found[j] # found[i])
    IN  IF names = << >> THEN t
        ELSE Frame(names,
                   [r \in 1..Len(t.rows) |->
                       [k \in 1..Len(names) |-> t.rows[r][ColIdx(t.cols, names[k])]]])

\* the validity mask without the "nan" test
ValidId_EmptyOnly(id) == id # << >>

\* valid_X: the normalised id is neither "" nor "nan"
ValidId(id) == id # << >> /\ id # <<"n","a","n">>

\* the rows of X whose id is valid and is not a valid id of Y (lines 777-786)
OnlyIn(X, colX, Y, colY) ==
    LET X_ids(i) == _norm_id(X.rows[i][ColIdx(X.cols, colX)])
        setY     == {id \in {_norm_id(Y.rows[i][ColIdx(Y.cols, colY)]) : i \in 1..Len(Y.rows)} :
                        ValidId(id)}
    IN  _nice_subset(Frame(X.cols,
            SelectByIndex(X.rows, LAMBDA i : ValidId(X_ids(i)) /\ X_ids(i) \notin setY)))

\* the comparison without the validity mask on the second table
Compare_NoValidB(A, colA, B, colB) ==
    IF colA = NONE \/ colB = NONE
    THEN [raised |-> TRUE, A_only |-> EmptyFrame, B_only |-> EmptyFrame]
    ELSE [raised |-> FALSE,
          A_only |-> OnlyIn(A, colA, B, colB),
          B_only |-> LET ids(X, c, i) == _norm_id(X.rows[i][ColIdx(X.cols, c)])
                         setA == {ids(A, colA, i) : i \in 1..Len(A.rows)}
                     IN  _nice_subset(Frame(B.cols,
                             SelectByIndex(B.rows, LAMBDA i : ids(B, colB, i) \notin setA)))]

\* lines 777-788; indexing a frame by a column that did not resolve raises KeyError
Compare(A, colA, B, colB) ==
    IF colA = NONE \/ colB = NONE
    THEN [raised |-> TRUE, A_only |-> EmptyFrame, B_only |-> EmptyFrame]
    ELSE [raised |-> FALSE,
          A_only |-> OnlyIn(A, colA, B, colB),
          B_only |-> OnlyIn(B, colB, A, colA)]

\* _pair_missing with "and" in place of "or" in the unresolved-column guard
_pair_missing_AndGuard(A, B) ==
    IF A.none \/ B.none \/ IsEmpty(A) \/ IsEmpty(B)
    THEN [raised |-> FALSE, A_only |-> EmptyFrame, B_only |-> EmptyFrame]
    ELSE LET colA == _pick_name(_map_cols(A.cols), TxnCandidates)
             colB == _pick_name(_map_cols(B.cols), TxnCandidates)
         IN  IF colA = NONE /\ colB = NONE
             THEN [raised |-> FALSE, A_only |-> EmptyFrame, B_only |-> EmptyFrame]
             ELSE Compare(A, colA, B, colB)

\* _pair_missing(A, nameA, B, nameB)
_pair_missing(A, B) ==
    IF A.none \/ B.none \/ IsEmpty(A) \/ IsEmpty(B)
    THEN [raised |-> FALSE, A_only |-> EmptyFrame, B_only |-> EmptyFrame]
    ELSE LET colA == _pick_name(_map_cols(A.cols), TxnCandidates)
             colB == _pick_name(_map_cols(B.cols), TxnCandidates)
         IN  IF colA = NONE \/ colB = NONE
             THEN [raised |-> FALSE, A_only |-> EmptyFrame, B_only |-> EmptyFrame]
             ELSE Compare(A, colA, B, colB)

-----------------------------------------------------------------------------
(* Missing-transaction checker: the tables explored and the call.          *)

\* a column layout whose id column is the first candidate
LayoutA == <<<<"T","r","a","n","s","a","c","t","i","o","n"," ","I","d">>, <<"A","m","o","u","n","t">>, <<"M","e","m","o">>>>

\* a column layout whose id column matches the second candidate after trim and lower
LayoutB == <<<<" ","t","r","a","n","s","a","c","t","i","o","n","i","d"," ">>, <<"M","e","m","o">>>>

\* a column layout in which no id column resolves
NoIdLayout == <<<<"T","x","n"," ","R","e","f">>, <<"A","m","o","u","n","t">>>>

\* the id cells of the rows explored under each layout
IdCells(L) ==
    IF L = LayoutA THEN {NAN, <<" ">>, <<"a">>, <<"b">>}
    ELSE IF L = LayoutB THEN {<<" ","N","a","N">>, <<" ","A">>, <<"b">>, <<"c">>}
    ELSE {<<"a">>}

\* a row of a layout: the id in the first column, a fixed text elsewhere
LayoutRow(L, id) == [k \in 1..Len(L) |-> IF k = 1 THEN id ELSE <<"7">>]

RecTables ==
    {NoneTable, EmptyFrame}
        \cup UNION {{Frame(L, rows) :
                        rows \in Tables({LayoutRow(L, id) : id \in IdCells(L)}, MaxRecRows)} :
                     L \in {LayoutA, LayoutB, NoIdLayout}}

finIdle ==
    /\ pc = "idle" /\ bal_uploaded = FALSE /\ exp_uploaded = FALSE
    /\ bal_file = << >> /\ exp_file = << >>
    /\ balance_file = << >> /\ expense_file = << >>
    /\ bf = << >> /\ ef = << >> /\ df = << >>
    /\ fltIdle

InitRec ==
    /\ rpc = "ready"
    /\ tabA \in RecTables
    /\ tabB \in RecTables
    /\ A_only = EmptyFrame /\ B_only = EmptyFrame
    /\ finIdle /\ canIdle /\ subIdle /\ pickIdle /\ loadIdle

\* line 821: A_only, B_only = _pair_missing(A, nameA, B, nameB)
RunCheck ==
    /\ rpc = "ready"
    /\ \E r \in {_pair_missing(tabA, tabB)} :
          /\ rpc' = IF r.raised THEN "error" ELSE "done"
          /\ A_only' = r.A_only
          /\ B_only' = r.B_only
    /\ UNCHANGED <<tabA, tabB, finVars, canVars, subVars, pickVars, loadVars>>

NextRec == RunCheck

SpecRec == InitRec /\ [][NextRec]_vars

-----------------------------------------------------------------------------
(* Properties of the missing-transaction checker.                          *)

Checked == rpc = "done"

\* a transaction-id column can be resolved in the table
Resolvable(t) ==
    \E i \in 1..Len(t.cols), j \in 1..Len(TxnCandidates) :
        Strip(Lower(t.cols[i])) = Lower(TxnCandidates[j])

\* both inputs are present, non-empty and have a resolvable id column
Comparable(A, B) ==
    /\ ~A.none /\ ~B.none
    /\ ~IsEmpty(A) /\ ~IsEmpty(B)
    /\ Resolvable(A) /\ Resolvable(B)

\* the normalised key of row i of a table with a resolvable id column
KeyOf(t, i) ==
    LET col == _pick_name(_map_cols(t.cols), TxnCandidates)
    IN  Lower(Strip(AsStr(t.rows[i][ColIdx(t.cols, col)])))

ValidKey(k) == k # << >> /\ k # <<"n","a","n">>

\* the valid normalised keys of a table
ValidKeys(t) == {k \in {KeyOf(t, i) : i \in 1..Len(t.rows)} : ValidKey(k)}

\* the rows of X with a valid key that is no valid key of Y, in the friendly columns
OnlyRows(X, Y) ==
    _nice_subset(Frame(X.cols,
        SelectByIndex(X.rows,
            LAMBDA i : ValidKey(KeyOf(X, i)) /\ KeyOf(X, i) \notin ValidKeys(Y))))

\* C7: with non-empty inputs and resolvable id columns, A_only is exactly the rows of
\* A whose normalised key (trimmed, lower-cased) is valid (not empty, not "nan") and
\* is no valid key of B, and symmetrically for B_only; a row with an invalid key is
\* in neither output and an invalid key never counts as present on the other side.
C7_PairMissingExact ==
    (Checked /\ Comparable(tabA, tabB)) =>
        /\ A_only = OnlyRows(tabA, tabB)
        /\ B_only = OnlyRows(tabB, tabA)
        /\ \A i \in 1..Len(A_only.rows) : ValidKey(KeyOf(A_only, i))
        /\ \A i \in 1..Len(B_only.rows) : ValidKey(KeyOf(B_only, i))
        /\ \A i \in 1..Len(tabA.rows) :
              (ValidKey(KeyOf(tabA, i)) /\ ~ValidKey(KeyOf(tabB, 1)) /\ Len(tabB.rows) = 1)
                  => \E r \in 1..Len(A_only.rows) : KeyOf(A_only, r) = KeyOf(tabA, i)

C7_Witness ==
    /\ Checked /\ Comparable(tabA, tabB)
    /\ Len(tabA.rows) = 2 /\ Len(A_only.rows) = 1
    /\ Len(tabB.rows) = 2 /\ Len(B_only.rows) = 0
    /\ \E i \in 1..2 : ~ValidKey(KeyOf(tabB, i))
    /\ \E i, j \in 1..2 :
          /\ tabB.rows[i][1] # tabA.rows[j][1]
          /\ KeyOf(tabB, i) = KeyOf(tabA, j) /\ ValidKey(KeyOf(tabB, i))

\* C8: the check is symmetric: _pair_missing(A, B) = (X, Y) implies
\* _pair_missing(B, A) = (Y, X); no normalised key of a row of A_only is a valid key
\* of B; inputs with the same valid keys give two outputs without rows.
C8_Symmetric ==
    Checked =>
        /\ \E r \in {_pair_missing(tabB, tabA)} :
              ~r.raised /\ r.A_only = B_only /\ r.B_only = A_only
        /\ \A i \in 1..Len(A_only.rows) : KeyOf(A_only, i) \notin ValidKeys(tabB)
        /\ \A i \in 1..Len(B_only.rows) : KeyOf(B_only, i) \notin ValidKeys(tabA)
        /\ (Comparable(tabA, tabB) /\ ValidKeys(tabA) = ValidKeys(tabB)) =>
              A_only.rows = << >> /\ B_only.rows = << >>

C8_Witness ==
    /\ Checked /\ Comparable(tabA, tabB)
    /\ tabA.cols # tabB.cols
    /\ A_only.rows # << >> /\ B_only.rows # << >>
    /\ A_only.cols # B_only.cols
    /\ \E i \in 1..Len(tabB.rows) : ~ValidKey(KeyOf(tabB, i))

\* an input is absent or empty, or its id column cannot be resolved
Degraded(t) == t.none \/ IsEmpty(t) \/ ~Resolvable(t)

\* C9: if either input is absent or empty, or the id column cannot be resolved in
\* either table, both outputs are empty tables and no error is raised, also when the
\* other table is non-empty.
C9_DegradedInputs ==
    (rpc # "ready" /\ (Degraded(tabA) \/ Degraded(tabB))) =>
        /\ rpc = "done"
        /\ A_only = EmptyFrame
        /\ B_only = EmptyFrame

C9_Witness ==
    /\ Checked
    /\ ~Degraded(tabA) /\ ValidKeys(tabA) # {}
    /\ ~tabB.none /\ ~IsEmpty(tabB) /\ ~Resolvable(tabB)
    /\ A_only = EmptyFrame /\ B_only = EmptyFrame

-----------------------------------------------------------------------------
(* Category canonicaliser of the subscription page.                        *)

TYPE_CANON_DICT ==
    (<<"t","e","c","h">> :> <<"T","e","c","h">>) @@ (<<"t","e","c","h","n","o","l","o","g","y">> :> <<"T","e","c","h">>) @@ (<<"i","t">> :> <<"T","e","c","h">>)
        @@ (<<"s","o","f","t","w","a","r","e">> :> <<"T","e","c","h">>) @@ (<<"s","a","a","s">> :> <<"T","e","c","h">>) @@ (<<"c","l","o","u","d">> :> <<"T","e","c","h">>)
        @@ (<<"m","a","r","k","e","t","i","n","g">> :> <<"M","a","r","k","e","t","i","n","g">>) @@ (<<"m","k","t">> :> <<"M","a","r","k","e","t","i","n","g">>)
        @@ (<<"g","r","e","e","n">> :> <<"G","r","e","e","n">>) @@ (<<"s","u","s","t","a","i","n","a","b","i","l","i","t","y">> :> <<"G","r","e","e","n">>)
        @@ (<<"o","t","h","e","r">> :> <<"O","t","h","e","r","s">>) @@ (<<"o","t","h","e","r","s">> :> <<"O","t","h","e","r","s">>)

\* str(val or ""): None and the empty text are falsy, float nan is truthy
StrOrEmpty(cell) == IF cell = NONE \/ cell = << >> THEN << >> ELSE AsStr(cell)

\* the canonicaliser with the Marketing check ahead of the Tech check
_canon_type_MarketFirst(cell) ==
    LET s0 == Lower(Strip(StrOrEmpty(cell)))
        s  == Strip(SubRuns(s0, LAMBDA c : c \notin LowerSet))
    IN  IF s \in DOMAIN TYPE_CANON_DICT THEN TYPE_CANON_DICT[s]
        ELSE IF Contains(s, <<"m","a","r","k","e","t">>) THEN <<"M","a","r","k","e","t","i","n","g">>
        ELSE IF StartsWith(s, <<"t","e","c","h">>) \/ Contains(s, <<"t","e","c","h","n","o","l","o","g">>) THEN <<"T","e","c","h">>
        ELSE IF Contains(s, <<"g","r","e","e","n">>) \/ Contains(s, <<"s","u","s","t","a","i","n">>) THEN <<"G","r","e","e","n">>
        ELSE IF Contains(s, <<"o","t","h","e","r">>) THEN <<"O","t","h","e","r","s">>
        ELSE IF s # << >> THEN Title(s) ELSE <<"O","t","h","e","r","s">>

\* the canonicaliser answering "Other" for an empty label
_canon_type_OtherSingular(cell) ==
    LET s0 == Lower(Strip(StrOrEmpty(cell)))
        s  == Strip(SubRuns(s0, LAMBDA c : c \notin LowerSet))
    IN  IF s \in DOMAIN TYPE_CANON_DICT THEN TYPE_CANON_DICT[s]
        ELSE IF StartsWith(s, <<"t","e","c","h">>) \/ Contains(s, <<"t","e","c","h","n","o","l","o","g">>) THEN <<"T","e","c","h">>
        ELSE IF Contains(s, <<"m","a","r","k","e","t">>) THEN <<"M","a","r","k","e","t","i","n","g">>
        ELSE IF Contains(s, <<"g","r","e","e","n">>) \/ Contains(s, <<"s","u","s","t","a","i","n">>) THEN <<"G","r","e","e","n">>
        ELSE IF Contains(s, <<"o","t","h","e","r">>) THEN <<"O","t","h","e","r","s">>
        ELSE IF s # << >> THEN Title(s) ELSE <<"O","t","h","e","r">>

\* _canon_type(val)
_canon_type(cell) ==
    LET s0 == Lower(Strip(StrOrEmpty(cell)))
        s  == Strip(SubRuns(s0, LAMBDA c : c \notin LowerSet))
    IN  IF s \in DOMAIN TYPE_CANON_DICT THEN TYPE_CANON_DICT[s]
        ELSE IF StartsWith(s, <<"t","e","c","h">>) \/ Contains(s, <<"t","e","c","h","n","o","l","o","g">>) THEN <<"T","e","c","h">>
        ELSE IF Contains(s, <<"m","a","r","k","e","t">>) THEN <<"M","a","r","k","e","t","i","n","g">>
        ELSE IF Contains(s, <<"g","r","e","e","n">>) \/ Contains(s, <<"s","u","s","t","a","i","n">>) THEN <<"G","r","e","e","n">>
        ELSE IF Contains(s, <<"o","t","h","e","r">>) THEN <<"O","t","h","e","r","s">>
        ELSE IF s # << >> THEN Title(s) ELSE <<"O","t","h","e","r","s">>

-----------------------------------------------------------------------------
(* Category canonicaliser: the labels explored and the call.               *)

\* the letter e with an acute accent, U+00E9: a letter outside a-z
E_ACUTE == "e_acute"

LabelAlphabet == {"i", "t", "T", " ", "-"}

\* cells of the Type column: named labels, every short text over LabelAlphabet, and
\* a missing cell
LabelCells ==
    {<<"S","a","a","S"," ">>, << >>, <<"r","a","n","d","o","m"," ","x","y","z">>, <<" ","T","e","c","h","-","M","a","r","k","e","t"," ">>, <<"G","r","e","e","n","-","M","a","r","k","e","t"," ","t","e","c","h">>,
     <<"o","t","h","e","r"," ","g","r","e","e","n">>, <<"S","u","s","t","a","i","n","a","b","l","e"," ","o","t","h","e","r","s">>, <<"f","i","n","t","e","c","h">>, <<"B","i","o","T","e","c","h","n","o","l","o","g","y">>, <<"I","T">>,
     <<"i","t"," ","d","e","p","t">>, <<"M","K","T">>, <<"C","l","o","u","d">>, <<"c","l","o","u","d"," ","9">>, <<"1","2","3">>, <<"R","&","D">>, <<"o","t","h","e","r","s",".">>,
     <<"N","o"," ","C","a","t","e","g","o","r","y"," ","F","o","u","n","d">>, <<"C", "a", "f", E_ACUTE, NBSP, "b", "a", "r">>, NAN, NONE}
        \cup Texts(LabelAlphabet, MaxLabelLen)

InitCan ==
    /\ cpc = "ready"
    /\ val \in LabelCells
    /\ canon = NONE
    /\ finIdle /\ recIdle /\ subIdle /\ pickIdle /\ loadIdle

\* line 205: df["Type"] = df["Type"].apply(_canon_type), one cell
Canonicalise ==
    /\ cpc = "ready"
    /\ canon' = _canon_type(val)
    /\ cpc' = "done"
    /\ UNCHANGED <<val, finVars, recVars, subVars, pickVars, loadVars>>

NextCan == Canonicalise

SpecCan == InitCan /\ [][NextCan]_vars

-----------------------------------------------------------------------------
(* Properties of the category canonicaliser.                               *)

Canonicalised == cpc = "done"

\* the maximal runs of the letters a-z of a text, in order
RECURSIVE LetterRuns(_)
LetterRuns(t) ==
    IF t = << >> THEN << >>
    ELSE IF t[1] \notin LowerSet THEN LetterRuns(Tail(t))
    ELSE LET stops == {i \in 1..Len(t) : t[i] \notin LowerSet}
             n     == IF stops = {} THEN Len(t) ELSE MinOf(stops) - 1
         IN  <<SubSeq(t, 1, n)>> \o LetterRuns(SubSeq(t, n + 1, Len(t)))

\* words joined by single spaces
RECURSIVE JoinWords(_)
JoinWords(ws) ==
    IF ws = << >> THEN << >>
    ELSE IF Len(ws) = 1 THEN ws[1]
    ELSE ws[1] \o <<" ">> \o JoinWords(Tail(ws))

\* the cleaned label: the lower-cased text of the cell with every run of characters
\* other than the letters a-z replaced by one space, trimmed
CleanedLabel(cell) ==
    JoinWords(LetterRuns(Lower(IF cell \in {NONE, << >>} THEN << >> ELSE AsStr(cell))))

\* the substring heuristics, in their order
HeuristicHit(k, c) ==
    CASE k = 1 -> StartsWith(c, <<"t","e","c","h">>) \/ Contains(c, <<"t","e","c","h","n","o","l","o","g">>)
      [] k = 2 -> Contains(c, <<"m","a","r","k","e","t">>)
      [] k = 3 -> Contains(c, <<"g","r","e","e","n">>) \/ Contains(c, <<"s","u","s","t","a","i","n">>)
      [] k = 4 -> Contains(c, <<"o","t","h","e","r">>)

HeuristicLabel == <<<<"T","e","c","h">>, <<"M","a","r","k","e","t","i","n","g">>, <<"G","r","e","e","n">>, <<"O","t","h","e","r","s">>>>

\* each word capitalised
TitleWords(c) ==
    JoinWords([w \in 1..Len(LetterRuns(c)) |->
                 LET word == LetterRuns(c)[w]
                 IN  <<ToUpper(word[1])>> \o Tail(word)])

-----------------------------------------------------------------------------
(* Subscription page: header detection and column mapping.  The loaded     *)
(* table has no header: every row is a sequence of cells, a text or np.nan. *)

\* rows scanned for the header (line 82)
ScanLimit == 60

s_NoCategoryFound == <<"N","o"," ","C","a","t","e","g","o","r","y"," ","F","o","u","n","d">>

\* _norm(s): re.sub(r"[^a-z0-9]+", "", str(s or "").strip().lower())
_norm(cell) ==
    SelectSeq(Lower(Strip(StrOrEmpty(cell))), LAMBDA c : c \in LowerSet \cup DigitSet)

DescTokens == {<<"d","e","s","c","r","i","p","t","i","o","n">>, <<"v","e","n","d","o","r">>, <<"d","e","t","a","i","l","s">>}

AmountTokens == {<<"d","e","b","i","t","a","u","d">>, <<"a","m","o","u","n","t">>, <<"a","m","t">>, <<"v","a","l","u","e">>, <<"d","e","b","i","t">>}

\* lines 84-88: the row holds a date, a description-like and an amount-like name
IsHeaderRow(row) ==
    LET low == {_norm(AsStr(row[k])) : k \in 1..Len(row)}
    IN  /\ <<"d","a","t","e">> \in low
        /\ DescTokens \cap low # {}
        /\ AmountTokens \cap low # {}

\* the header search over every row of the table
header_idx_NoWindow(t) ==
    LET hits == {i \in 1..Len(t) : IsHeaderRow(t[i])}
    IN  IF hits = {} THEN 1 ELSE MinOf(hits)

\* lines 81-90, as a position from 1: the first header row among the first
\* ScanLimit rows, the first row when there is none
header_idx(t) ==
    LET scan_limit == MinOf({Len(t), ScanLimit})
        hits       == {i \in 1..scan_limit : IsHeaderRow(t[i])}
    IN  IF hits = {} THEN 1 ELSE MinOf(hits)

\* line 96: .replace({"": pd.NA, "nan": pd.NA}) of one cell
EmptyToNa(cell) == IF cell \in {<< >>, <<"n","a","n">>} THEN PDNA ELSE cell

\* lines 94-96: the rows below the header, blank texts made missing, rows without
\* any value dropped
BodyRows(t) ==
    LET below == SubSeq(t, header_idx(t) + 1, Len(t))
        clean == [i \in 1..Len(below) |->
                    [k \in 1..Len(below[i]) |-> EmptyToNa(below[i][k])]]
    IN  SelectSeq(clean, LAMBDA row : \E k \in 1..Len(row) : ~IsNa(row[k]))

DateCandidates == {<<"D","a","t","e">>, <<"T","x","n"," ","D","a","t","e">>, <<"T","r","a","n","s","a","c","t","i","o","n"," ","D","a","t","e">>}

DescCandidates == {<<"D","e","s","c","r","i","p","t","i","o","n">>, <<"V","e","n","d","o","r">>, <<"D","e","t","a","i","l","s">>, <<"N","a","r","r","a","t","i","o","n">>}

AmtCandidates ==
    {<<"D","e","b","i","t"," ","(","A","U","D",")">>, <<"D","e","b","i","t","(","A","U","D",")">>, <<"D","e","b","i","t"," ","A","U","D">>, <<"A","m","o","u","n","t">>, <<"A","m","t">>, <<"V","a","l","u","e">>, <<"D","e","b","i","t">>}

TypeCandidates ==
    {<<"T","y","p","e">>, <<"T","y","p","e"," ","o","f"," ","S","u","b","s"," ","e","x","p","e","n","s","e","s">>, <<"S","u","b","s","c","r","i","p","t","i","o","n"," ","T","y","p","e">>, <<"S","u","b","s"," ","T","y","p","e">>,
     <<"C","a","t","e","g","o","r","y">>, <<"C","a","t","e","g","o","r","i","e","s">>}

\* _find(*cands): the position of the first column, in table order, whose
\* normalised name is a normalised candidate; 0 stands for None
_find(header, cands) ==
    LET cand_norm == {_norm(x) : x \in cands}
        hits      == {k \in 1..Len(header) : _norm(header[k]) \in cand_norm}
    IN  IF hits = {} THEN 0 ELSE MinOf(hits)

\* lines 114-117: the names reported for the required columns that did not resolve
MissingColumns(header) ==
    (IF _find(header, DateCandidates) = 0 THEN <<<<"D","a","t","e">>>> ELSE << >>)
        \o (IF _find(header, DescCandidates) = 0 THEN <<<<"D","e","s","c","r","i","p","t","i","o","n">>>> ELSE << >>)
        \o (IF _find(header, AmtCandidates) = 0 THEN <<<<"D","e","b","i","t","(","A","U","D",")">>>> ELSE << >>)

\* the amount text with the NBSP removal of line 130 but not the regex of line 129
CleanDebitText_KeepSeparators(cell) == SelectSeq(AsStr(cell), LAMBDA c : c # NBSP)

\* lines 128-130: .astype(str).str.replace(r"[,$()\s]", "").str.replace("\u00a0", "")
CleanDebitText(cell) ==
    LET stripped == SelectSeq(AsStr(cell),
                        LAMBDA c : c \notin {",", "$", "(", ")"} /\ ~IsSpace(c))
    IN  SelectSeq(stripped, LAMBDA c : c # NBSP)

\* the Type column without the fixed label for an unresolved column
TypeCell_NoDefault(row, type_col) ==
    IF type_col = 0 THEN NAN
    ELSE IF IsNa(row[type_col]) THEN s_NoCategoryFound ELSE row[type_col]

\* lines 132-135: df[type_col].fillna("No Category Found"), or the label itself
TypeCell(row, type_col) ==
    IF type_col = 0 THEN s_NoCategoryFound
    ELSE IF IsNa(row[type_col]) THEN s_NoCategoryFound ELSE row[type_col]

\* lines 123-136: the standardised frame
StandardRows(t) ==
    LET header   == t[header_idx(t)]
        body     == BodyRows(t)
        date_col == _find(header, DateCandidates)
        desc_col == _find(header, DescCandidates)
        amt_col  == _find(header, AmtCandidates)
        type_col == _find(header, TypeCandidates)
    IN  [i \in 1..Len(body) |->
            [Date        |-> body[i][date_col],
             Description |-> body[i][desc_col],
             Debit       |-> CleanDebitText(body[i][amt_col]),
             Type        |-> TypeCell(body[i], type_col)]]

-----------------------------------------------------------------------------
(* Subscription page: _prepare.                                            *)

\* pd.to_datetime(text, dayfirst=True, errors="coerce") on the two layouts of the
\* explored dates, "DD/MM/YYYY" (read month first when the day-first reading is
\* no date) and "DD Mon YYYY"; any other explored text is no date
ToDatetimeDayFirst(t) ==
    IF /\ Len(t) = 10 /\ t[3] = "/" /\ t[6] = "/"
       /\ IsDigits(SubSeq(t, 1, 2)) /\ IsDigits(SubSeq(t, 4, 5)) /\ IsDigits(SubSeq(t, 7, 10))
    THEN LET a == DigitsVal(SubSeq(t, 1, 2))
             b == DigitsVal(SubSeq(t, 4, 5))
             y == DigitsVal(SubSeq(t, 7, 10))
         IN  IF ValidDate(y, b, a) THEN DateOf(y, b, a)
             ELSE IF ValidDate(y, a, b) THEN DateOf(y, a, b)
             ELSE NaT
    ELSE IF /\ Len(t) = 11 /\ t[3] = " " /\ t[7] = " "
            /\ IsDigits(SubSeq(t, 1, 2)) /\ IsDigits(SubSeq(t, 8, 11))
            /\ \E m \in 1..12 : Lower(month_abbr[m]) = Lower(SubSeq(t, 4, 6))
    THEN LET d == DigitsVal(SubSeq(t, 1, 2))
             y == DigitsVal(SubSeq(t, 8, 11))
             m == CHOOSE k \in 1..12 : Lower(month_abbr[k]) = Lower(SubSeq(t, 4, 6))
         IN  IF ValidDate(y, m, d) THEN DateOf(y, m, d) ELSE NaT
    ELSE NaT

\* _parse_date(x) of a text or missing cell
_parse_date(cell) == IF IsNa(cell) THEN NaT ELSE ToDatetimeDayFirst(cell)

\* df["Date"].dt.to_period("M").astype(str)
PeriodText(date) == ZeroPad(date.y, 4) \o <<"-">> \o ZeroPad(date.m, 2)

\* s.split("-")[0]
BeforeDash(s) ==
    LET at == {i \in 1..Len(s) : s[i] = "-"}
    IN  IF at = {} THEN s ELSE SubSeq(s, 1, MinOf(at) - 1)

\* _clean_vendor(v)
_clean_vendor(cell) ==
    IF IsNa(cell) THEN <<"U","n","k","n","o","w","n">>
    ELSE LET v == Strip(cell)
         IN  IF StartsWith(Lower(v), <<"a","i","r","w","a","l","l","e","x"," ","e","x","p","e","n","s","e","s">>) THEN <<"A","i","r","w","a","l","l","e","x"," ","E","x","p","e","n","s","e","s">>
             ELSE Strip(BeforeDash(v))

\* line 198: pd.to_numeric(df["Debit(AUD)"], errors="coerce") of one text
CoerceDebit(text) == ToNumeric(text)

\* the amount filter keeping every row that has a number
KeepsDebit_AnyNumber(x) == ~x.nan

\* line 199: df["Debit(AUD)"] > 0, false for not-a-number
KeepsDebit(x) == ~x.nan /\ x.v > 0

\* one record of the prepared frame
PreparedRow(row) ==
    LET date == _parse_date(row.Date)
    IN  [Date        |-> date,
         Description |-> row.Description,
         Debit       |-> CoerceDebit(row.Debit),
         Type        |-> _canon_type(row.Type),
         Vendor      |-> _clean_vendor(row.Description),
         Year        |-> date.y,
         Month       |-> date.m,
         Month_Name  |-> month_abbr[date.m],
         Month_Year  |-> PeriodText(date)]

\* df.columns, for a frame that has rows
FrameColumns(rows) == IF rows = << >> THEN {} ELSE DOMAIN rows[1]

\* _prepare(df): the rows of another Source dropped when the frame has a Source
\* column (lines 182-183 and 190-191), rows without a date dropped, then rows
\* without a positive amount
_prepare(rows) ==
    LET spend == IF "Source" \in FrameColumns(rows)
                 THEN SelectSeq(rows, LAMBDA row :
                          Lower(Strip(AsStr(row.Source))) = <<"s","p","e","n","d"," ","m","o","n","e","y">>)
                 ELSE rows
        dated == SelectSeq(spend, LAMBDA row : ~_parse_date(row.Date).nat)
        spent == SelectSeq(dated, LAMBDA row : KeepsDebit(CoerceDebit(row.Debit)))
    IN  [i \in 1..Len(spent) |-> PreparedRow(spent[i])]

-----------------------------------------------------------------------------
(* Subscription page: the uploads explored.  The loader reads every cell   *)
(* as text and yields np.nan for an empty cell and for the text "nan".     *)

HdrFull == <<<<"D","a","t","e">>, <<"D","e","s","c","r","i","p","t","i","o","n">>, <<"D","e","b","i","t"," ","(","A","U","D",")">>, <<"T","y","p","e"," ","o","f"," ","S","u","b","s"," ","e","x","p","e","n","s","e","s">>>>

HdrNoType == <<<<"d","a","t","e">>, <<" ","V","e","n","d","o","r"," ">>, <<"A","m","o","u","n","t">>, <<"N","o","t","e","s">>>>

HdrNoAmount == <<<<"D","a","t","e">>, <<"D","e","s","c","r","i","p","t","i","o","n">>, <<"N","o","t","e","s">>, <<"T","y","p","e">>>>

HdrNoDate == <<<<"W","h","e","n">>, <<"D","e","t","a","i","l","s">>, <<"D","e","b","i","t">>, <<"C","a","t","e","g","o","r","y">>>>

HdrNone == <<<<"M","e","m","o">>, <<"N","o","t","e","s">>, NAN, <<"T","y","p","e">>>>

\* alias names that resolve but do not mark a header row
HdrAliases == <<<<"T","x","n"," ","D","a","t","e">>, <<"N","a","r","r","a","t","i","o","n">>, <<"V","a","l","u","e">>, <<"S","u","b","s"," ","T","y","p","e">>>>

Headers == {HdrFull, HdrNoType, HdrNoAmount, HdrNoDate, HdrNone, HdrAliases}

\* a title row above the header
Preamble == <<<<"S","u","b","s","c","r","i","p","t","i","o","n","s"," ","r","e","p","o","r","t">>, NAN, NAN, NAN>>

\* n title rows
Preambles(n) == [i \in 1..n |-> Preamble]

SubRow(d, v, a, t) == <<d, v, a, t>>

SubDateCells ==
    {<<"0","2"," ","J","a","n"," ","2","0","2","5">>, <<"1","5","/","0","3","/","2","0","2","5">>, <<"1","2","/","1","3","/","2","0","2","5">>, <<"3","1","/","0","2","/","2","0","2","5">>, <<"T","o","t","a","l">>, NAN}

SubDescCells ==
    {<<"M","i","c","r","o","s","o","f","t"," ","-"," ","3","6","5">>, <<"A","i","r","w","a","l","l","e","x"," ","E","x","p","e","n","s","e","s"," ","-"," ","c","a","r","d"," ","1","2">>, <<" ","C","a","n","v","a"," ">>, <<"-">>, NAN}

SubAmountCells ==
    AmountCells
        \cup {<<"6","9","1",".","8","4">>, <<" ","1","2"," ">>, <<"1", NBSP, "0", "0", "0">>, <<"0",".","0","0">>, <<"-","0">>, <<"1","2","a","b","c">>}

SubTypeCells == {<<"S","a","a","S"," ">>, <<"M","a","r","k","e","t","i","n","g">>, <<"g","r","e","e","n"," ","e","n","e","r","g","y">>, <<"M","i","s","c">>, <<"1","2","3">>, NAN}

CoreSubRows ==
    {SubRow(<<"0","2"," ","J","a","n"," ","2","0","2","5">>, <<"M","i","c","r","o","s","o","f","t"," ","-"," ","3","6","5">>, <<"6","9","1",".","8","4">>, <<"S","a","a","S"," ">>),
     SubRow(<<"1","5","/","0","3","/","2","0","2","5">>, <<"A","i","r","w","a","l","l","e","x"," ","E","x","p","e","n","s","e","s"," ","-"," ","c","a","r","d"," ","1","2">>, <<"-","5","0",".","0","0">>, <<"M","a","r","k","e","t","i","n","g">>),
     SubRow(<<"0","3","/","0","2","/","2","0","2","5">>, <<" ","C","a","n","v","a"," ">>, <<"1",",","2","3","4",".","5","6">>, NAN),
     SubRow(NAN, NAN, NAN, NAN)}

VaryingSubRows ==
    {SubRow(<<"0","2"," ","J","a","n"," ","2","0","2","5">>, <<"M","i","c","r","o","s","o","f","t"," ","-"," ","3","6","5">>, a, <<"M","i","s","c">>) : a \in SubAmountCells}
        \cup {SubRow(d, v, <<"6","9","1",".","8","4">>, <<"M","i","s","c">>) : d \in SubDateCells, v \in SubDescCells}
        \cup {SubRow(<<"0","2"," ","J","a","n"," ","2","0","2","5">>, <<" ","C","a","n","v","a"," ">>, <<"1","2">>, t) : t \in SubTypeCells}

\* a report export with a Source column, and its rows
HdrSource == HdrFull \o <<<<"S","o","u","r","c","e">>>>

SourceCells == {<<"S","p","e","n","d"," ","M","o","n","e","y">>, <<"R","e","c","e","i","v","e"," ","M","o","n","e","y">>}

SourcedRows ==
    {SubRow(<<"0","2"," ","J","a","n"," ","2","0","2","5">>, <<"M","i","c","r","o","s","o","f","t"," ","-"," ","3","6","5">>, <<"6","9","1",".","8","4">>, <<"S","a","a","S"," ">>) \o <<c>> :
        c \in SourceCells}
        \cup {SubRow(<<"1","5","/","0","3","/","2","0","2","5">>, <<" ","C","a","n","v","a"," ">>, <<"1","2">>, <<"M","i","s","c">>) \o <<c>> :
                c \in SourceCells}

\* a sheet with two amount columns, 'Amount' before 'Debit (AUD)', and its rows
HdrTwoAmounts == <<<<"D","a","t","e">>, <<"D","e","s","c","r","i","p","t","i","o","n">>, <<"A","m","o","u","n","t">>, <<"D","e","b","i","t"," ","(","A","U","D",")">>>>

TwoAmountRows ==
    {SubRow(<<"0","2"," ","J","a","n"," ","2","0","2","5">>, <<"M","i","c","r","o","s","o","f","t"," ","-"," ","3","6","5">>, <<"1","0","0">>, <<"6","9","1",".","8","4">>),
     SubRow(<<"1","5","/","0","3","/","2","0","2","5">>, <<" ","C","a","n","v","a"," ">>, <<"-","5","0",".","0","0">>, <<"1","2">>)}

\* the data rows of an upload
SubBodies == Tables(CoreSubRows, MaxRows) \cup {<<r>> : r \in VaryingSubRows}

\* the loaded tables: a header, with or without a title row above it, and data
\* rows; and a sheet without any row
RawTables ==
    {<< >>}
        \cup {<<h>> \o b : h \in Headers, b \in SubBodies}
        \cup {<<Preamble, h>> \o b : h \in {HdrFull, HdrAliases, HdrNoAmount},
                                     b \in Tables(CoreSubRows, MaxRows)}
        \cup {<<HdrSource>> \o b : b \in Tables(SourcedRows, MaxRows)}
        \cup {<<HdrTwoAmounts>> \o b : b \in Tables(TwoAmountRows, MaxRows) \ {<< >>}}
        \cup {Preambles(n) \o <<HdrFull>> \o <<r>> :
                n \in {ScanLimit - 1, ScanLimit}, r \in CoreSubRows}

-----------------------------------------------------------------------------
(* Subscription page: the page script, top to bottom.                      *)

InitSub ==
    /\ spc = "start"
    /\ uploaded \in {NoUpload} \cup {UploadOf(t) : t \in RawTables}
    /\ sub_raw = << >> /\ missing = << >> /\ sub_df = << >>
    /\ finIdle /\ recIdle /\ canIdle /\ pickIdle /\ loadIdle

\* lines 264-269: st.stop() without an upload
SubStop ==
    /\ spc = "start"
    /\ uploaded.none
    /\ spc' = "stopped"
    /\ UNCHANGED <<uploaded, sub_raw, missing, sub_df, finVars, recVars, canVars, pickVars, loadVars>>

\* line 271: raw = _load_csv(uploaded)
LoadFile ==
    /\ spc = "start"
    /\ ~uploaded.none
    /\ sub_raw' = uploaded.rows
    /\ spc' = "loaded"
    /\ UNCHANGED <<uploaded, missing, sub_df, finVars, recVars, canVars, pickVars, loadVars>>

\* line 272: df = _standardise_columns(raw).  raw.iloc[0] of a table without rows
\* raises IndexError (line 93); a missing required column is reported and the
\* script stops (lines 119-121)
Standardise ==
    /\ spc = "loaded"
    /\ IF sub_raw = << >>
       THEN spc' = "failed" /\ UNCHANGED <<missing, sub_df>>
       ELSE LET m == MissingColumns(sub_raw[header_idx(sub_raw)])
            IN  IF m # << >>
                THEN spc' = "stopped" /\ missing' = m /\ UNCHANGED sub_df
                ELSE /\ spc' = "standardised"
                     /\ sub_df' = StandardRows(sub_raw)
                     /\ UNCHANGED missing
    /\ UNCHANGED <<uploaded, sub_raw, finVars, recVars, canVars, pickVars, loadVars>>

\* line 273: df = _prepare(df)
Prepare ==
    /\ spc = "standardised"
    /\ sub_df' = _prepare(sub_df)
    /\ spc' = "prepared"
    /\ UNCHANGED <<uploaded, sub_raw, missing, finVars, recVars, canVars, pickVars, loadVars>>

NextSub == SubStop \/ LoadFile \/ Standardise \/ Prepare

SpecSub == InitSub /\ [][NextSub]_vars

-----------------------------------------------------------------------------
(* Both pipelines under one specification, for properties that span them.  *)

InitPipelines == InitFin \/ InitSub

NextPipelines == NextFin \/ NextSub

SpecPipelines == InitPipelines /\ [][NextPipelines]_vars

\* a text that reads as a decimal number: an optional minus sign, then digits with
\* at most one decimal point and at least one digit
IsDecimal(s) ==
    LET body == IF s # << >> /\ s[1] = "-" THEN Tail(s) ELSE s
    IN  /\ \E i \in 1..Len(body) : body[i] \in DigitSet
        /\ \A i \in 1..Len(body) : body[i] \in DigitSet \cup {"."}
        /\ Cardinality({i \in 1..Len(body) : body[i] = "."}) <= 1

\* the raw amount of the financial pipeline does not read as a number once every
\* character other than digits, "." and "-" is removed
Unparsable(cell) ==
    ~IsDecimal(SelectSeq(AsStr(cell), LAMBDA c : c \in DigitSet \cup {".", "-"}))

\* no amount of the financial frames is not-a-number, and an unparsable raw amount
\* has become 0.0
FinAmountsDefined ==
    /\ \A j \in 1..Len(bf) :
          ~bf[j].Amount.nan /\ (Unparsable(bf[j].amount) => bf[j].Amount = Zero)
    /\ \A i \in 1..Len(ef) :
          ~ef[i].Amount.nan /\ (Unparsable(ef[i].billing) => ef[i].Amount = Zero)
    /\ \A i \in 1..Len(df) :
          /\ ~df[i].Amount.nan /\ ~df[i].Debit.nan /\ ~df[i].Credit.nan
          /\ i <= Len(ef) => (Unparsable(ef[i].billing) => df[i].Amount = Zero)
          /\ i > Len(ef) =>
                (Unparsable(bf[i - Len(ef)].amount) => df[i].Amount = Zero)

SubHeader == sub_raw[header_idx(sub_raw)]

\* some column of the header is one of the names of a logical column
Resolves(cands) ==
    \E k \in 1..Len(SubHeader) : _norm(SubHeader[k]) \in {_norm(x) : x \in cands}

RequiredResolve ==
    Resolves(DateCandidates) /\ Resolves(DescCandidates) /\ Resolves(AmtCandidates)

\* _standardise_columns has reached the column resolution and returned or stopped
ColumnsResolved == spc \in {"stopped", "standardised", "prepared"} /\ sub_raw # << >>

Named(name) == \E k \in 1..Len(missing) : missing[k] = name

DatedAmounts ==
    LET std   == StandardRows(sub_raw)
        dated == SelectSeq(std, LAMBDA row : ~_parse_date(row.Date).nat)
    IN  [i \in 1..Len(dated) |-> ToNumeric(dated[i].Debit)]

\* the raw amount cells of the data rows of the loaded sheet
RawAmounts ==
    LET body == BodyRows(sub_raw)
    IN  [i \in 1..Len(body) |-> body[i][_find(SubHeader, AmtCandidates)]]

Alnum(cell) ==
    Lower(SelectSeq(AsStr(cell), LAMBDA c : c \in LowerSet \cup UpperSet \cup DigitSet))

\* the row names a date, a description and an amount
Qualifies(row) ==
    LET names == {Alnum(row[k]) : k \in 1..Len(row)}
    IN  /\ <<"d","a","t","e">> \in names
        /\ \E n \in {<<"d","e","s","c","r","i","p","t","i","o","n">>, <<"v","e","n","d","o","r">>, <<"d","e","t","a","i","l","s">>} : n \in names
        /\ \E n \in {<<"d","e","b","i","t","a","u","d">>, <<"a","m","o","u","n","t">>, <<"a","m","t">>, <<"v","a","l","u","e">>, <<"d","e","b","i","t">>} : n \in names

\* the first qualifying row among the first 60 rows of the loaded sheet, the
\* first row when none qualifies
SelectedHeader ==
    IF \E h \in 1..Len(sub_raw) : h <= 60 /\ Qualifies(sub_raw[h])
    THEN CHOOSE h \in 1..Len(sub_raw) :
            /\ h <= 60 /\ Qualifies(sub_raw[h])
            /\ \A g \in 1..(h-1) : ~Qualifies(sub_raw[g])
    ELSE 1

\* the position in the selected header row of the first column named by cands
ColumnOf(cands) ==
    LET row  == sub_raw[SelectedHeader]
        hits == {k \in 1..Len(row) : \E x \in cands : Alnum(row[k]) = Alnum(x)}
    IN  IF hits = {} THEN 0 ELSE MinOf(hits)

\* the rows below the selected header row that hold a value
RowsBelowHeader ==
    SelectSeq(SubSeq(sub_raw, SelectedHeader + 1, Len(sub_raw)),
              LAMBDA row : \E k \in 1..Len(row) : ~IsNa(row[k]))

\* C21: the header is the first of the first 60 rows that names a date, a
\* description and an amount, the first row when none does: the run stops exactly
\* when that row lacks a required column, and the standardised rows are the rows
\* below it, in order, and no other row.
C21_HeaderDetection ==
    ColumnsResolved =>
        /\ spc = "stopped" <=>
              (ColumnOf(DateCandidates) = 0 \/ ColumnOf(DescCandidates) = 0
                  \/ ColumnOf(AmtCandidates) = 0)
        /\ spc = "standardised" =>
              [i \in 1..Len(sub_df) |-> <<sub_df[i].Date, sub_df[i].Description>>]
                  = [i \in 1..Len(RowsBelowHeader) |->
                        <<RowsBelowHeader[i][ColumnOf(DateCandidates)],
                          RowsBelowHeader[i][ColumnOf(DescCandidates)]>>]

\* a sheet with a title row above the header and two rows below it: two
\* standardised rows, the header being the second row
C21_Witness ==
    /\ spc = "standardised"
    /\ Len(sub_raw) = 4
    /\ SelectedHeader = 2
    /\ Len(sub_df) = 2
    /\ sub_df[1].Date = sub_raw[3][1]


\* the position of the Source column in the header of the loaded sheet, 0 without
SourceColumn ==
    LET hits == {k \in 1..Len(SubHeader) : SubHeader[k] = <<"S","o","u","r","c","e">>}
    IN  IF hits = {} THEN 0 ELSE MinOf(hits)

\* the data rows of the loaded sheet whose Source is "spend money" in any case
SpendRows ==
    SelectSeq(BodyRows(sub_raw),
              LAMBDA row : Lower(AsStr(row[SourceColumn])) = <<"s","p","e","n","d"," ","m","o","n","e","y">>)

\* C22 as stated: when the uploaded sheet has a Source column, the records come
\* from the rows whose Source is "spend money" ignoring case, so there are no more
\* records than such rows and every record has the description of one of them.
C22_AsStated ==
    (spc = "prepared" /\ SourceColumn # 0) =>
        /\ Len(sub_df) <= Len(SpendRows)
        /\ \A i \in 1..Len(sub_df) :
              \E k \in 1..Len(SpendRows) :
                  sub_df[i].Description = SpendRows[k][_find(SubHeader, DescCandidates)]

\* the vendor of a description: "Unknown" without a description, "Airwallex
\* Expenses" for that prefix in any case, else the trimmed text before the first
\* "-", and "Unknown" when that text is empty
VendorOf(cell) ==
    IF IsNa(cell) THEN <<"U","n","k","n","o","w","n">>
    ELSE IF StartsWith(Lower(Strip(cell)), <<"a","i","r","w","a","l","l","e","x"," ","e","x","p","e","n","s","e","s">>) THEN <<"A","i","r","w","a","l","l","e","x"," ","E","x","p","e","n","s","e","s">>
    ELSE LET dash == {i \in 1..Len(cell) : cell[i] = "-"}
             head == IF dash = {} THEN cell ELSE SubSeq(cell, 1, MinOf(dash) - 1)
         IN  IF Strip(head) = << >> THEN <<"U","n","k","n","o","w","n">> ELSE Strip(head)

\* C23 as stated: the vendor of every record is "Airwallex Expenses" for a
\* description with that prefix, else the trimmed text before the first "-", and
\* "Unknown" when the description is missing or that text is empty; no record has
\* an empty vendor.
C23_AsStated ==
    spc = "prepared" =>
        \A i \in 1..Len(sub_df) :
            /\ sub_df[i].Vendor = VendorOf(sub_df[i].Description)
            /\ sub_df[i].Vendor # << >>

\* the alias lists of lines 107-112, in order
DateAliases == <<<<"D","a","t","e">>, <<"T","x","n"," ","D","a","t","e">>, <<"T","r","a","n","s","a","c","t","i","o","n"," ","D","a","t","e">>>>

DescAliases == <<<<"D","e","s","c","r","i","p","t","i","o","n">>, <<"V","e","n","d","o","r">>, <<"D","e","t","a","i","l","s">>, <<"N","a","r","r","a","t","i","o","n">>>>

AmtAliases ==
    <<<<"D","e","b","i","t"," ","(","A","U","D",")">>, <<"D","e","b","i","t","(","A","U","D",")">>, <<"D","e","b","i","t"," ","A","U","D">>, <<"A","m","o","u","n","t">>, <<"A","m","t">>, <<"V","a","l","u","e">>, <<"D","e","b","i","t">>>>

\* the column of the header matching the earliest alias that any column matches
PreferredColumn(aliases) ==
    LET Matches(k, j) == _norm(SubHeader[k]) = _norm(aliases[j])
        present == {j \in 1..Len(aliases) : \E k \in 1..Len(SubHeader) : Matches(k, j)}
    IN  IF present = {} THEN 0
        ELSE MinOf({k \in 1..Len(SubHeader) : Matches(k, MinOf(present))})

\* C24 as stated: each logical column is the column matching the earliest alias of
\* its list that the table has, whatever the order of the columns: the standardised
\* date, description and amount are read from those columns.
C24_AsStated ==
    spc = "standardised" =>
        LET body == BodyRows(sub_raw)
        IN  \A i \in 1..Len(sub_df) :
                /\ sub_df[i].Date = body[i][PreferredColumn(DateAliases)]
                /\ sub_df[i].Description = body[i][PreferredColumn(DescAliases)]
                /\ sub_df[i].Debit = CleanDebitText(body[i][PreferredColumn(AmtAliases)])
-----------------------------------------------------------------------------
(* Column resolver.  _pick of the financial page and _pick_name of the     *)
(* missing-transaction checker, applied to a table's column names and one  *)
(* of the candidate lists the page passes.                                 *)

MaxCols == 2

\* _pick with the first match in table order instead of candidate order
_pick_TableOrder(cols, names) ==
    LET hits == {i \in 1..Len(cols) :
                    \E j \in 1..Len(names) : Strip(Lower(cols[i])) = Lower(names[j])}
    IN  IF hits = {} THEN NONE ELSE cols[MinOf(hits)]

\* _pick: m maps the lower-cased, stripped name of each column to the column (a
\* later column replaces an earlier one with the same key); the column of the first
\* candidate whose lower-cased name is a key of m, or None
_pick(cols, names) ==
    LET Key(i) == Strip(Lower(cols[i]))
        m      == [k \in {Key(i) : i \in 1..Len(cols)} |->
                      cols[MaxOf({i \in 1..Len(cols) : Key(i) = k})]]
        hits   == {j \in 1..Len(names) : Lower(names[j]) \in DOMAIN m}
    IN  IF hits = {} THEN NONE ELSE m[Lower(names[MinOf(hits)])]

\* the candidate lists the financial page passes to _pick and the checker to
\* _pick_name
PickCandidates ==
    { <<<<"F","i","n","a","n","c","i","a","l"," ","T","r","a","n","s","a","c","t","i","o","n"," ","T","y","p","e">>>>,
      <<<<"T","i","m","e">>, <<"C","r","e","a","t","e","d"," ","A","t">>>>,
      <<<<"D","e","s","c","r","i","p","t","i","o","n">>, <<"R","e","f","e","r","e","n","c","e">>>>,
      <<<<"T","r","a","n","s","a","c","t","i","o","n"," ","I","d">>, <<"R","e","q","u","e","s","t"," ","I","d">>>>,
      <<<<"A","m","o","u","n","t">>>>,
      TxnCandidates }

\* column names as a CSV header gives them: exact, padded, in another case, or
\* unrelated
ColumnNames ==
    { <<"T","i","m","e">>, <<" ","t","i","m","e"," ">>, <<"C","r","e","a","t","e","d"," ","A","t">>, <<"C","R","E","A","T","E","D"," ","A","T">>, <<"c","r","e","a","t","e","d"," ","a","t"," ">>,
      <<"D","e","s","c","r","i","p","t","i","o","n">>, <<"r","e","f","e","r","e","n","c","e">>, <<"A","m","o","u","n","t">>, <<"a","m","o","u","n","t"," ">>,
      <<"T","r","a","n","s","a","c","t","i","o","n"," ","I","d">>, <<"T","r","a","n","s","a","c","t","i","o","n","I","D">>, <<"r","e","q","u","e","s","t"," ","i","d">>,
      <<"F","i","n","a","n","c","i","a","l"," ","T","r","a","n","s","a","c","t","i","o","n"," ","T","y","p","e">>, <<"C","u","r","r","e","n","c","y">>, <<"T","i","m","e","s","t","a","m","p">> }

\* headers of up to MaxCols distinct column names
ColumnLayouts ==
    LET Seqs[n \in 0..MaxCols] ==
            IF n = 0 THEN { << >> }
            ELSE { Append(s, c) : s \in Seqs[n-1],
                                  c \in ColumnNames }
        Distinct(s) == \A i, j \in 1..Len(s) : s[i] = s[j] => i = j
    IN  { s \in UNION {Seqs[n] : n \in 0..MaxCols} : Distinct(s) }

InitPick ==
    /\ ppc = "start"
    /\ columns \in ColumnLayouts
    /\ cand_names \in PickCandidates
    /\ pick_col = << >>
    /\ finIdle /\ recIdle /\ canIdle /\ subIdle /\ loadIdle

\* col = _pick(df, names)
Pick ==
    /\ ppc = "start"
    /\ ppc' = "_pick"
    /\ pick_col' = _pick(columns, cand_names)
    /\ UNCHANGED <<columns, cand_names, finVars, recVars, canVars, subVars, loadVars>>

\* k = _pick_name(df, _map_cols(df), candidates)
PickName ==
    /\ ppc = "start"
    /\ ppc' = "_pick_name"
    /\ pick_col' = _pick_name(_map_cols(columns), cand_names)
    /\ UNCHANGED <<columns, cand_names, finVars, recVars, canVars, subVars, loadVars>>

NextPick == Pick \/ PickName

SpecPick == InitPick /\ [][NextPick]_vars

\* a column and a candidate are the same name when they are equal after trimming
\* and ignoring case
SameName(c, n) == Lower(Strip(c)) = Lower(Strip(n))

\* the candidates, by position, that some column of the table matches
PresentCandidates ==
    {j \in 1..Len(cand_names) : \E i \in 1..Len(columns) : SameName(columns[i], cand_names[j])}

Resolved == ppc \in {"_pick", "_pick_name"}

\* C12: the resolver returns a column of the table that matches, ignoring case and
\* surrounding whitespace, the earliest candidate that any column matches, and it
\* returns None when no column matches any candidate.
C12_Resolver ==
    Resolved =>
        IF PresentCandidates = {}
        THEN pick_col = NONE
        ELSE /\ \E i \in 1..Len(columns) : columns[i] = pick_col
             /\ SameName(pick_col, cand_names[MinOf(PresentCandidates)])

\* two candidates are present, the later candidate's column comes first in the
\* table, and the earlier candidate is matched by a padded column in another case
C12_Witness ==
    /\ ppc = "_pick"
    /\ Cardinality(PresentCandidates) = 2
    /\ Len(columns) = 2
    /\ SameName(columns[1], cand_names[2])
    /\ pick_col = columns[2]
    /\ pick_col # cand_names[1]
    /\ Strip(pick_col) # pick_col
-----------------------------------------------------------------------------
(* Subscription page: _load_csv.  The uploaded file is a sequence of bytes *)
(* with a read position; a decoder gives the code points of the text or    *)
(* fails, as the Python codecs do.                                          *)

\* longest explored file, in bytes
MaxBytes == 3

\* the result of a decoder
Decoded(cps) == [ok |-> TRUE, text |-> cps]

DecodeError == [ok |-> FALSE, text |-> << >>]

IsCont(b) == b \in 128..191

\* the utf-8 codec: one to four bytes per code point, no overlong form, no
\* surrogate, nothing above U+10FFFF
Utf8(bs) ==
    LET n == Len(bs)
        D[i \in 1..(n + 1)] ==
            IF i = n + 1 THEN Decoded(<< >>)
            ELSE LET b    == bs[i]
                     Cont(k) == i + k <= n /\ IsCont(bs[i + k])
                     size == IF b < 128 THEN 1
                             ELSE IF b \in 194..223 /\ Cont(1) THEN 2
                             ELSE IF /\ b \in 224..239 /\ Cont(1) /\ Cont(2)
                                     /\ (b = 224 => bs[i+1] >= 160)
                                     /\ (b = 237 => bs[i+1] <= 159) THEN 3
                             ELSE IF /\ b \in 240..244 /\ Cont(1) /\ Cont(2) /\ Cont(3)
                                     /\ (b = 240 => bs[i+1] >= 144)
                                     /\ (b = 244 => bs[i+1] <= 143) THEN 4
                             ELSE 0
                     cp   == IF size = 1 THEN b
                             ELSE IF size = 2 THEN (b - 192) * 64 + (bs[i+1] - 128)
                             ELSE IF size = 3
                             THEN (b - 224) * 4096 + (bs[i+1] - 128) * 64 + (bs[i+2] - 128)
                             ELSE (b - 240) * 262144 + (bs[i+1] - 128) * 4096
                                     + (bs[i+2] - 128) * 64 + (bs[i+3] - 128)
                 IN  IF size = 0 THEN DecodeError
                     ELSE IF ~D[i + size].ok THEN DecodeError
                     ELSE Decoded(<<cp>> \o D[i + size].text)
    IN  D[1]

\* the byte order mark
BOM == <<239, 187, 191>>

\* the utf-8-sig codec: utf-8 after a leading byte order mark is dropped
Utf8Sig(bs) ==
    IF Len(bs) >= 3 /\ SubSeq(bs, 1, 3) = BOM THEN Utf8(SubSeq(bs, 4, Len(bs)))
    ELSE Utf8(bs)

\* the code points cp1252 gives the bytes 128..159; five of them are undefined
Cp1252High ==
    [b \in 128..159 |->
        CASE b = 128 -> 8364 [] b = 130 -> 8218 [] b = 131 -> 402  [] b = 132 -> 8222
          [] b = 133 -> 8230 [] b = 134 -> 8224 [] b = 135 -> 8225 [] b = 136 -> 710
          [] b = 137 -> 8240 [] b = 138 -> 352  [] b = 139 -> 8249 [] b = 140 -> 338
          [] b = 142 -> 381  [] b = 145 -> 8216 [] b = 146 -> 8217 [] b = 147 -> 8220
          [] b = 148 -> 8221 [] b = 149 -> 8226 [] b = 150 -> 8211 [] b = 151 -> 8212
          [] b = 152 -> 732  [] b = 153 -> 8482 [] b = 154 -> 353  [] b = 155 -> 8250
          [] b = 156 -> 339  [] b = 158 -> 382  [] b = 159 -> 376
          [] OTHER -> 0]

\* the cp1252 codec
Cp1252(bs) ==
    IF \E i \in 1..Len(bs) : bs[i] \in {129, 141, 143, 144, 157} THEN DecodeError
    ELSE Decoded([i \in 1..Len(bs) |->
                    IF bs[i] \in 128..159 THEN Cp1252High[bs[i]] ELSE bs[i]])

\* the latin-1 codec: every byte is its code point
Latin1(bs) == Decoded(bs)

\* bytes.decode(enc)
Decode(enc, bs) ==
    CASE enc = "utf-8-sig" -> Utf8Sig(bs)
      [] enc = "utf-8"     -> Utf8(bs)
      [] enc = "cp1252"    -> Cp1252(bs)
      [] enc = "latin-1"   -> Latin1(bs)

\* the encodings with cp1252 tried first
Encodings_Cp1252First == <<"cp1252", "utf-8-sig", "utf-8", "latin-1">>

\* line 42: the encodings in the order they are tried
Encodings == <<"utf-8-sig", "utf-8", "cp1252", "latin-1">>

\* the file left where it is
Seek0_Skipped(f) == f

\* file.seek(0)
Seek0(f) == [f EXCEPT !.pos = 0]

\* what a read from the current position sees
Unread(f) == SubSeq(f.bytes, f.pos + 1, Len(f.bytes))

\* pd.read_csv(file, ..., encoding=enc) at the current position: the parse of the
\* decoded text, EmptyDataError for a text without any column, UnicodeDecodeError
\* when the bytes do not decode
ReadCsv(f, enc) ==
    LET d == Decode(enc, Unread(f))
    IN  IF ~d.ok THEN [kind |-> "UnicodeDecodeError", enc |-> enc, text |-> << >>]
        ELSE IF d.text = << >> THEN [kind |-> "EmptyDataError", enc |-> enc, text |-> << >>]
        ELSE [kind |-> "frame", enc |-> enc, text |-> d.text]

\* the bytes explored: "A", the two bytes of U+00E9 in utf-8, its single byte in
\* cp1252 and latin-1, and a byte cp1252 does not define
ByteAlphabet == {65, 195, 169, 233, 129}

Files ==
    LET Seqs[n \in 0..MaxBytes] ==
            IF n = 0 THEN { << >> }
            ELSE Seqs[n-1] \cup { Append(s, b) : s \in Seqs[n-1], b \in ByteAlphabet }
    IN  Seqs[MaxBytes] \cup { BOM \o <<65>> }

InitLoad ==
    /\ lpc = "start"
    /\ \E bs \in Files, p \in {0, 1}, c \in BOOLEAN :
          /\ p <= Len(bs)
          /\ fileobj = [csv |-> c, bytes |-> bs, pos |-> p * Len(bs)]
    /\ tried = << >>
    /\ loaded = NothingLoaded
    /\ finIdle /\ recIdle /\ canIdle /\ subIdle /\ pickIdle

loadFrame == <<finVars, recVars, canVars, subVars, pickVars>>

\* line 41: the name ends with ".csv"
EnterCsv ==
    /\ lpc = "start"
    /\ fileobj.csv
    /\ lpc' = "attempt"
    /\ UNCHANGED <<fileobj, tried, loaded, loadFrame>>

\* lines 68-70: the Excel path; read_excel returns a frame or raises
ReadExcel ==
    /\ lpc = "start"
    /\ ~fileobj.csv
    /\ fileobj' = [Seek0(fileobj) EXCEPT !.pos = Len(fileobj.bytes)]
    /\ \E k \in {"frame", "BadZipFile"} :
          /\ loaded' = [kind |-> k, enc |-> "excel", text |-> << >>]
          /\ lpc' = IF k = "frame" THEN "returned" ELSE "raised"
    /\ UNCHANGED <<tried, loadFrame>>

\* lines 42-66: one turn of the loop: rewind, read_csv with the next encoding;
\* return its frame, let any other error out, go on after UnicodeDecodeError and,
\* after the last encoding, rewind and read with latin-1
Attempt ==
    /\ lpc = "attempt"
    /\ LET enc == Encodings[Len(tried) + 1]
           f   == Seek0(fileobj)
           r   == ReadCsv(f, enc)
       IN  /\ tried' = Append(tried, [enc |-> enc, pos |-> f.pos])
           /\ IF r.kind = "frame"
              THEN /\ loaded' = r /\ lpc' = "returned"
                   /\ fileobj' = [f EXCEPT !.pos = Len(f.bytes)]
              ELSE IF r.kind = "EmptyDataError"
              THEN /\ loaded' = r /\ lpc' = "raised"
                   /\ fileobj' = [f EXCEPT !.pos = Len(f.bytes)]
              ELSE IF Len(tried) + 1 < Len(Encodings)
              THEN /\ loaded' = loaded /\ lpc' = "attempt"
                   /\ \E p \in 0..Len(f.bytes) : fileobj' = [f EXCEPT !.pos = p]
              ELSE LET g == Seek0(fileobj)
                       q == ReadCsv(g, "latin-1")
                   IN  /\ loaded' = q
                       /\ lpc' = IF q.kind = "frame" THEN "returned" ELSE "raised"
                       /\ fileobj' = [g EXCEPT !.pos = Len(g.bytes)]
    /\ UNCHANGED loadFrame

NextLoad == EnterCsv \/ ReadExcel \/ Attempt

SpecLoad == InitLoad /\ [][NextLoad]_vars

\* the attempts _load_csv makes on the bytes of a CSV, in the stated order: every
\* encoding up to and including the first that decodes the whole file
AttemptsOn(bs) ==
    LET order == <<"utf-8-sig", "utf-8", "cp1252", "latin-1">>
        first == CHOOSE k \in 1..4 :
                    /\ Decode(order[k], bs).ok
                    /\ \A j \in 1..(k-1) : ~Decode(order[j], bs).ok
    IN  SubSeq(order, 1, first)

\* C25: on a CSV the encodings are tried in the order utf-8-sig, utf-8, cp1252,
\* latin-1, each from position 0; the attempts stop with the first encoding that
\* decodes the file, whose text is what is returned; no UnicodeDecodeError is
\* raised to the caller.
C25_EncodingFallback ==
    fileobj.csv =>
        /\ \A k \in 1..Len(tried) :
              /\ tried[k].pos = 0
              /\ tried[k].enc = AttemptsOn(fileobj.bytes)[k]
        /\ Len(tried) <= Len(AttemptsOn(fileobj.bytes))
        /\ lpc \in {"returned", "raised"} =>
              /\ [k \in 1..Len(tried) |-> tried[k].enc] = AttemptsOn(fileobj.bytes)
              /\ loaded.enc = tried[Len(tried)].enc
              /\ loaded.kind # "UnicodeDecodeError"
              /\ loaded.kind = "frame" =>
                    loaded.text = Decode(loaded.enc, fileobj.bytes).text
        /\ lpc = "raised" => fileobj.bytes = << >>
        /\ lpc = "returned" => fileobj.bytes # << >>

\* a file that is not utf-8 and not cp1252, handed over already read to its end:
\* three attempts failed and latin-1 returned its three characters
C25_Witness ==
    /\ lpc = "returned"
    /\ fileobj.csv
    /\ Len(tried) = 4
    /\ loaded.kind = "frame" /\ loaded.enc = "latin-1"
    /\ loaded.text = fileobj.bytes
    /\ Len(fileobj.bytes) = MaxBytes
-----------------------------------------------------------------------------
(* Financial pipeline: the unifier run again on its own output.            *)

\* lines 212-263 on a table: the seven steps of the unifier in script order
Rederive(t) ==
    MapRows(MapRows(MapRows(MapRows(MapRows(MapRows(MapRows(t,
        DeriveRow), AdjustRow), CardCategoryRow), IncompleteRow),
        TimeRow), NumericRow), FallbackRow)

\* the unified table of two uploads
UnifiedTable(e, b) == Rederive(ConcatFrames(BuildEf(e), BuildBf(b)))

\* the unifier's output of two uploads is handed to line 210 as final_dataframe
InitRederive ==
    /\ pc = "concat"
    /\ bal_uploaded = TRUE /\ exp_uploaded = TRUE
    /\ \E u \in Uploads : bal_file = u[1] /\ exp_file = u[2]
    /\ balance_file = bal_file /\ expense_file = exp_file
    /\ bf = BuildBf(balance_file) /\ ef = BuildEf(expense_file)
    /\ df = UnifiedTable(expense_file, balance_file)
    /\ fltIdle
    /\ recIdle /\ canIdle /\ subIdle /\ pickIdle /\ loadIdle

NextRederive ==
    \/ DeriveUserCategory
    \/ AdjustmentOverride
    \/ CardCategory
    \/ IncompleteRule
    \/ TimeFields
    \/ EnsureNumerics
    \/ DebitCreditFallback

SpecRederive == InitRederive /\ [][NextRederive]_vars

\* C26: the unifier's steps applied to the unifier's own output give that output
\* again: the table after the second run equals the unified table of the uploads,
\* row for row and column for column.
C26_Idempotent ==
    pc = "unified" => df = UnifiedTable(expense_file, balance_file)

\* the second run has finished on a table with an ADJUSTMENT row and a CARD row,
\* with a row the fallback wrote a zero amount to and a row without a timestamp
C26_Witness ==
    /\ pc = "unified"
    /\ df = UnifiedTable(expense_file, balance_file)
    /\ \E i \in 1..Len(df) : df[i].Type = <<"A","D","J","U","S","T","M","E","N","T">> /\ df[i].User = s_Adjustments
    /\ \E i \in 1..Len(df) : df[i].Type = CARD
    /\ \E i \in 1..Len(df) : df[i].Time.nat
    /\ \E i \in 1..Len(df) : ~df[i].Time.nat /\ ~df[i].MonthYear.nat
    /\ \E i \in 1..Len(df) : MissingMask(df[i]) /\ df[i].Type \in DebitTypes
-----------------------------------------------------------------------------
(* Financial pipeline: the debit/credit fallback on any numeric table.     *)

\* rows as line 251 leaves them: a normalised type, of the five or not, and
\* numbers in Amount, Debit Net Amount and Credit Net Amount
NumericRows ==
    { UnifiedRow(<<"T","1">>, t, <<"B","o","b">>, Num(a * Scale), NAN, NAN,
                 Num(d * Scale), Num(c * Scale), NaT) :
        t \in {<<"P","A","Y","O","U","T">>, <<"D","E","P","O","S","I","T">>, <<"C","A","R","D">>, <<"F","E","E">>},
        a \in {0, 3}, d \in {0, 5}, c \in {0, 7} }

InitFallback ==
    /\ pc = "numeric"
    /\ df \in Tables(NumericRows, MaxRows)
    /\ bal_uploaded = TRUE /\ exp_uploaded = TRUE
    /\ bal_file = << >> /\ exp_file = << >>
    /\ balance_file = << >> /\ expense_file = << >>
    /\ bf = << >> /\ ef = << >>
    /\ fltIdle
    /\ recIdle /\ canIdle /\ subIdle /\ pickIdle /\ loadIdle

NextFallback == DebitCreditFallback

SpecFallback == InitFallback /\ [][NextFallback]_vars

BothZero(r) == r.Debit = Zero /\ r.Credit = Zero

FiveTypes == {<<"C","A","R","D">>, <<"P","A","Y","O","U","T">>, <<"A","D","J","U","S","T","M","E","N","T">>, <<"D","E","P","O","S","I","T">>, <<"C","A","R","D","_","R","E","F","U","N","D">>}

\* C27: the fallback keeps the number and order of the rows; a row with a
\* non-zero Debit Net Amount or Credit Net Amount is left as it is, a row with
\* both zero and a type outside the five keeps both zero, and so a row whose
\* debit or credit changes had both exactly 0.
C27_FallbackFrame ==
    [][ pc = "numeric" =>
          /\ Len(df') = Len(df)
          /\ \A i \in 1..Len(df) :
                /\ ~BothZero(df[i]) => df'[i] = df[i]
                /\ BothZero(df[i]) /\ df[i].Type \notin FiveTypes =>
                      df'[i] = df[i]
                /\ (df'[i].Debit # df[i].Debit \/ df'[i].Credit # df[i].Credit) =>
                      BothZero(df[i]) ]_vars

\* after the fallback: a payout it gave its amount as debit, beside a payout
\* whose debit and credit, both non-zero and different from the amount, stand
C27_Witness ==
    /\ pc = "unified"
    /\ \E i, j \in 1..Len(df) :
          /\ df[i].Type = <<"P","A","Y","O","U","T">> /\ df[i].Amount = Num(3 * Scale)
          /\ df[i].Debit = df[i].Amount /\ df[i].Credit = Zero
          /\ df[j].Type = <<"P","A","Y","O","U","T">> /\ df[j].Amount = Num(3 * Scale)
          /\ df[j].Debit = Num(5 * Scale) /\ df[j].Credit = Num(7 * Scale)
-----------------------------------------------------------------------------
(* Financial page: the unified table against the uploads in the checker.   *)

\* the frames the checker is handed (lines 809-817), with their text columns
ExpenseFrame(file) ==
    Frame(<<<<"E","m","p","l","o","y","e","e","(","s",")">>, <<"B","i","l","l","i","n","g"," ","a","m","o","u","n","t">>, <<"E","x","p","e","n","s","e"," ","c","a","t","e","g","o","r","y">>, <<"E","x","p","e","n","s","e"," ","s","t","a","t","u","s">>,
            <<"T","r","a","n","s","a","c","t","i","o","n"," ","I","d">>, <<"T","r","a","n","s","a","c","t","i","o","n"," ","t","i","m","e","s","t","a","m","p"," ","U","T","C">>>>,
          [i \in 1..Len(file) |->
              <<file[i].employees, file[i].billing, file[i].category, file[i].status,
                file[i].txn, file[i].time>>])

BalanceFrame(file) ==
    Frame(<<<<"F","i","n","a","n","c","i","a","l"," ","T","r","a","n","s","a","c","t","i","o","n"," ","T","y","p","e">>, <<"A","m","o","u","n","t">>, <<"D","e","s","c","r","i","p","t","i","o","n">>,
            <<"T","r","a","n","s","a","c","t","i","o","n"," ","I","d">>, <<"T","i","m","e">>>>,
          [i \in 1..Len(file) |->
              <<file[i].ftt, file[i].amount, file[i].description, file[i].txn,
                file[i].time>>])

UnifiedFrame(d) ==
    Frame(<<<<"E","m","p","l","o","y","e","e">>, <<"T","r","a","n","s","a","c","t","i","o","n"," ","I","d">>, <<"E","x","p","e","n","s","e"," ","c","a","t","e","g","o","r","y">>, <<"E","x","p","e","n","s","e"," ","s","t","a","t","u","s">>,
            <<"T","y","p","e">>>>,
          [i \in 1..Len(d) |->
              <<d[i].Employee, d[i].txn, d[i].Expense_category, d[i].Expense_status,
                d[i].Type>>])

\* the page script from the uploads to the unified table (lines 88-263)
NextUnify ==
    \/ Stop
    \/ ReadFiles
    \/ BuildBalance
    \/ BuildExpense
    \/ Concat
    \/ DeriveUserCategory
    \/ AdjustmentOverride
    \/ CardCategory
    \/ IncompleteRule
    \/ TimeFields
    \/ EnsureNumerics
    \/ DebitCreditFallback

SpecUnify == InitFin /\ [][NextUnify]_vars

\* the positions of the script at which df is the unified table or on its way
UnifierStages ==
    {"concat", "derived", "adjusted", "card", "incomplete", "time", "numeric", "unified"}

KeptBalance == SelectSeq(balance_file, LAMBDA row : FinType(row) \in KeptTypes)

\* the rows "Present in A but MISSING in Unified"
MissingInUnified(A) == _pair_missing(A, UnifiedFrame(df)).A_only

-----------------------------------------------------------------------------
(* Category canonicaliser applied to its own result.                       *)

\* line 205 once more, on the column it produced: the label becomes the cell
Recanonicalise ==
    /\ cpc = "done"
    /\ val' = canon
    /\ canon' = _canon_type(canon)
    /\ cpc' = "again"
    /\ UNCHANGED <<finVars, recVars, subVars, pickVars, loadVars>>

NextCanTwice == Canonicalise \/ Recanonicalise

SpecCanTwice == InitCan /\ [][NextCanTwice]_vars

\* C29: _canon_type of a label that _canon_type returned is that label: the four
\* category names and every title-cased ad-hoc label are fixed.
C29_Idempotent == cpc = "again" => canon = val

\* a title-cased ad-hoc label, the result of the first call, was canonicalised
\* again and came back
C29_Witness ==
    /\ cpc = "again"
    /\ val = <<"I","t"," ","D","e","p","t">>
    /\ canon = <<"I","t"," ","D","e","p","t">>
====
